---- MODULE Spec2Model ----
(***************************************************************************)
(* Generate -> evaluate -> retry control loop of the chat bot:             *)
(*   services/chat_service.py        ChatService.process_chat_request      *)
(*   services/retry_service.py       RetryService and its strategies       *)
(*   services/evaluation_service.py  EvaluationService.find_best_response  *)
(* The completion provider and the evaluation provider are the             *)
(* environment: each call draws its outcome from a small set.              *)
(***************************************************************************)
EXTENDS Integers, Sequences, FiniteSets, TLC

\* ---------------------------------------------------------------- bounds
\* largest max_retries a RetryService is configured with
MaxRetriesBound == 3
\* largest n_attempts / candidate list length given by a direct caller
MaxN == 3

\* ---------------------------------------------------------------- values
\* Python None (for Optional[str]) and "the call raised an exception"
None == "<None>"
Raise == "<raise>"

\* non-empty completion texts the generation provider can return
Texts == {"a", "b"}
\* everything create_chat_completion(messages) can do: text, "", None, raise
ProviderOutcomes == Texts \cup {"", None, Raise}

\* the reply and feedback a direct caller of the retry engine passes in
OriginalReplies == {"o"}
InitialFeedbacks == {"f0"}

\* Optional[Evaluation]: kind "eval" is an Evaluation object, kind "none" is
\* None, kind "unbound" is a local name that was never assigned, kind "raise"
\* is an exception raised by the evaluation provider call.
Eval(acc, fb) == [kind |-> "eval", is_acceptable |-> acc, feedback |-> fb]
NoneEval == [kind |-> "none", is_acceptable |-> FALSE, feedback |-> ""]
Unbound == [kind |-> "unbound", is_acceptable |-> FALSE, feedback |-> ""]
RaiseEval == [kind |-> "raise", is_acceptable |-> FALSE, feedback |-> ""]

\* everything create_evaluation_completion can do
EvaluatorOutcomes ==
    {NoneEval, RaiseEval, Eval(TRUE, "f1")}
        \cup {Eval(FALSE, fb) : fb \in {"", "f1", "f2"}}

\* truthiness of an Optional[str]: None and "" are falsy
Truthy(s) == s \notin {None, ""}

Last(s) == s[Len(s)]

RECURSIVE Pow(_, _)
Pow(b, e) == IF e <= 0 THEN 1 ELSE b * Pow(b, e - 1)

Min(a, b) == IF a <= b THEN a ELSE b

\* ---------------------------------------------------------------- constants of the code
Apology == "Sorry, I couldn't generate a response."
ErrorMessage == "Sorry, I encountered an error while processing your request."
FallbackSystemPrompt == "You are a helpful AI assistant."
PersonaSystemPrompt == "You are acting as <name> ..."
EvaluatorFallbackPrompt ==
    "You are an AI assistant that evaluates responses for quality and appropriateness."
EvaluatorPersonaPrompt ==
    "You are an evaluator that decides whether a response to a question is acceptable. ... <name> ..."
\* default of retry_best_of_n's n_attempts, used by retry_with_strategy
DefaultNAttempts == 3

\* parameters create_chat_completion binds: (messages, model, max_retries)
create_chat_completion_params == {"messages", "model", "max_retries"}

\* RetryStrategy
SINGLE == "single"
MULTIPLE == "multiple"
PROGRESSIVE == "progressive"
BEST_OF_N == "best_of_n"
RetryStrategy == {SINGLE, MULTIPLE, PROGRESSIVE, BEST_OF_N}
\* default of retry_with_strategy's strategy parameter
DefaultStrategy == PROGRESSIVE

\* configurations of RetryService(max_retries, base_delay, max_delay,
\* backoff_factor); no field is validated, so a negative delay is a
\* configuration the program accepts
Configs ==
    [max_retries : 1..MaxRetriesBound, base_delay : {-1, 2},
     max_delay : {3}, backoff_factor : {2}]

VARIABLES
    cfg,              \* RetryService fields
    profile_ok,       \* whether get_info() can load the persona
    \* --- one retry session (RetryService method frames)
    rpc,              \* position inside the retry engine
    caller,           \* who started the session
    strategy, original_reply, feedback,   \* arguments
    attempts, current_feedback, attempt, range_end, evaluation,
    n_attempts,
    responses, evaluations, best,   \* find_best_response frame
    result,           \* the RetryResult returned
    \* --- one chat request (ChatService.process_chat_request frame)
    cpc, gen_outcome, system_prompt, response, reply, chat_evaluation,
    was_retried,
    chat_response,
    \* --- observed calls to the collaborators, in order
    gen_calls, eval_calls, sleeps, retry_calls,
    \* --- one call of a provider client (api/openai_client, api/gemini_client)
    pclient,          \* which create_*_completion method runs
    ppc,              \* position inside it
    pmax,             \* its local max_retries after the default is applied
    pattempt,         \* the loop variable `attempt`
    pret,             \* returned content (chat completions)
    pret_eval,        \* returned Evaluation (evaluation completion)
    premote,          \* remote calls made, in order, with what they gave
    pwaits,           \* time.sleep calls, in order
    \* --- calls of RetryService.update_settings, in order
    settings_calls,
    \* --- one use of core/message_formatter
    fm_pc,            \* position: inputs chosen, conversation built, extracted
    fm_system_prompt, fm_message, fm_history,   \* arguments
    fm_builder,       \* which builder made the conversation
    fm_messages,      \* the conversation built
    fm_extracted,     \* what extract_content_from_messages returned
    \* --- core/profile_loader
    files,            \* what the profile files hold, or that they cannot be read
    cached_profile,   \* ProfileLoader._cached_profile
    loader_call,      \* the latest call of one of the loader's methods
    \* --- EvaluationService.evaluate_response against a deterministic provider
    ev_provider,      \* what the provider answered to the prompts asked so far
    ev_calls,         \* calls of evaluate_response, in order
    epoch             \* number of changes of files or cache made by others

session_vars == <<rpc, caller, strategy, original_reply, feedback, attempts,
                  current_feedback, attempt, range_end, evaluation,
                  n_attempts, responses, evaluations, best, result>>
chat_vars == <<cpc, gen_outcome, system_prompt, response, reply, chat_evaluation,
               was_retried, chat_response>>
log_vars == <<gen_calls, eval_calls, sleeps, retry_calls>>
provider_vars == <<pclient, ppc, pmax, pattempt, pret, pret_eval, premote,
                   pwaits>>
formatter_vars == <<fm_pc, fm_system_prompt, fm_message, fm_history,
                    fm_builder, fm_messages, fm_extracted>>
loader_vars == <<files, cached_profile, loader_call>>
evaluate_vars == <<ev_provider, ev_calls, epoch>>
core_vars == <<formatter_vars, loader_vars, evaluate_vars>>
vars == <<cfg, profile_ok, session_vars, chat_vars, log_vars, provider_vars,
          settings_calls, core_vars>>

\* ---------------------------------------------------------------- pure parts
\* RetryResult.__init__
RetryResult(fr, ws, am, fe, aa) ==
    [final_response |-> fr, was_successful |-> ws, attempts_made |-> am,
     final_evaluation |-> fe, all_attempts |-> aa]
NoResult == RetryResult(None, FALSE, 0, NoneEval, <<>>)

\* ChatResponse
ChatResponse(c, e, wr) == [content |-> c, evaluation |-> e, was_retried |-> wr]
NoChatResponse == ChatResponse(None, NoneEval, FALSE)

\* ChatResponse.is_successful
is_successful(cr) == cr.evaluation.kind = "none" \/ cr.evaluation.is_acceptable

\* get_system_prompt of ChatService and RetryService: persona prompt, or the
\* fallback when get_info raises
get_system_prompt(ok) == IF ok THEN PersonaSystemPrompt ELSE FallbackSystemPrompt

\* mutation: a failed persona load gives an empty prompt
get_evaluator_system_prompt_empty(ok) ==
    IF ok THEN EvaluatorPersonaPrompt ELSE ""

\* get_evaluator_system_prompt of EvaluationService: persona prompt, or the
\* fallback when get_info raises
get_evaluator_system_prompt(ok) ==
    IF ok THEN EvaluatorPersonaPrompt ELSE EvaluatorFallbackPrompt

\* a call create_chat_completion(messages, **kwargs) raises TypeError unless
\* every keyword is a parameter of the function
call_binds(kwargs) == kwargs \subseteq create_chat_completion_params

\* ChatService.generate_response: calls create_chat_completion(messages,
\* tools=tools); any exception is caught and gives None
generate_response(out) ==
    IF ~call_binds({"tools"}) THEN None
    ELSE IF out = Raise THEN None
    ELSE out

\* RetryService.retry_response: calls create_chat_completion(messages); any
\* exception is caught and gives None
retry_response(out) ==
    IF ~call_binds({}) THEN None
    ELSE IF out = Raise THEN None
    ELSE out

\* EvaluationService.evaluate_response: the provider's verdict, None when the
\* provider returned None or anything raised
evaluate_response(out) == IF out.kind = "raise" THEN NoneEval ELSE out

\* mutation: the acceptance test never succeeds
is_accepted_never(e) == e.kind = "eval" /\ e.is_acceptable /\ FALSE

\* mutation: a missing verdict counts as acceptance
is_accepted_or_none(e) == e.kind = "none" \/ (e.kind = "eval" /\ e.is_acceptable)

\* `evaluation and evaluation.is_acceptable`
is_accepted(e) == e.kind = "eval" /\ e.is_acceptable

\* mutation: no fallback string for a missing response
initial_reply_no_fallback(resp) == IF Truthy(resp) THEN resp ELSE ""

\* process_chat_request: reply = response or "Sorry, I couldn't ..."
initial_reply(resp) == IF Truthy(resp) THEN resp ELSE Apology

\* mutation: the feedback is never updated
next_feedback_frozen(cur, e) == cur

\* retry_with_evaluation: feedback for the next iteration
next_feedback(cur, e) ==
    IF e.kind = "eval" /\ e.feedback # "" THEN e.feedback ELSE cur

\* retry_with_evaluation: delay before the next attempt
delay_before_next(a, c) ==
    Min(c.base_delay * Pow(c.backoff_factor, a - 1), c.max_delay)

\* mutation: the exhausted result falls back to the original reply
exhausted_result_original(atts, orig, e, c) ==
    RetryResult(orig, FALSE, c.max_retries,
                IF e.kind = "unbound" THEN NoneEval ELSE e, atts)

\* mutation: the exhausted result counts the replies generated
exhausted_result_counting_replies(atts, orig, e, c) ==
    RetryResult(IF Len(atts) > 1 THEN Last(atts) ELSE orig,
                FALSE, Len(atts) - 1,
                IF e.kind = "unbound" THEN NoneEval ELSE e,
                atts)

\* retry_with_evaluation: the result when all retries failed
exhausted_result(atts, orig, e, c) ==
    RetryResult(IF Len(atts) > 1 THEN Last(atts) ELSE orig,
                FALSE, c.max_retries,
                IF e.kind = "unbound" THEN NoneEval ELSE e,
                atts)

\* mutation: the scan keeps the last acceptable response
RECURSIVE last_acceptable(_, _, _)
last_acceptable(resps, evals, i) ==
    IF i > Len(resps) \/ i > Len(evals) THEN 0
    ELSE LET later == last_acceptable(resps, evals, i + 1) IN
         IF later > 0 THEN later
         ELSE IF evals[i].kind = "eval" /\ evals[i].is_acceptable THEN i
         ELSE 0

\* EvaluationService.find_best_response after evaluate_multiple_responses:
\* the first response (zip order) whose evaluation is acceptable, else the
\* first response with its evaluation
RECURSIVE first_acceptable(_, _, _)
first_acceptable(resps, evals, i) ==
    IF i > Len(resps) \/ i > Len(evals) THEN 0
    ELSE IF is_accepted(evals[i]) THEN i
    ELSE first_acceptable(resps, evals, i + 1)

Best(r, e) == [response |-> r, evaluation |-> e]
NoBest == Best(None, NoneEval)

\* mutation: the fallback is the last response
find_best_response_last(resps, evals) ==
    LET i == first_acceptable(resps, evals, 1) IN
    IF i > 0 THEN Best(resps[i], evals[i])
    ELSE Best(resps[Len(resps)], evals[Len(evals)])

find_best_response(resps, evals) ==
    LET i == first_acceptable(resps, evals, 1) IN
    IF i > 0 THEN Best(resps[i], evals[i])
    ELSE Best(resps[1], IF Len(evals) > 0 THEN evals[1] ELSE NoneEval)

\* mutation: the failure result counts the original among the attempts
best_of_n_result_counting(atts, orig, b) ==
    IF Len(atts) > 1 /\ Truthy(b.response) /\ is_accepted(b.evaluation)
    THEN RetryResult(b.response, TRUE, Len(atts) - 1, b.evaluation, atts)
    ELSE RetryResult(IF Len(atts) > 1 THEN Last(atts) ELSE orig,
                     FALSE, Len(atts), NoneEval, atts)

\* retry_best_of_n: the result built from find_best_response's answer
best_of_n_result(atts, orig, b) ==
    IF Len(atts) > 1 /\ Truthy(b.response) /\ is_accepted(b.evaluation)
    THEN RetryResult(b.response, TRUE, Len(atts) - 1, b.evaluation, atts)
    ELSE RetryResult(IF Len(atts) > 1 THEN Last(atts) ELSE orig,
                     FALSE, Len(atts) - 1, NoneEval, atts)

\* mutation: a missing verdict counts as success
single_result_lenient(orig, r, e) ==
    IF Truthy(r)
    THEN RetryResult(r, IF e.kind = "eval" THEN e.is_acceptable ELSE TRUE,
                     1, e, <<orig, r>>)
    ELSE RetryResult(orig, FALSE, 1, NoneEval, <<orig>>)

\* retry_with_strategy, SINGLE branch: the two results
single_result(orig, r, e) ==
    IF Truthy(r)
    THEN RetryResult(r, IF e.kind = "eval" THEN e.is_acceptable ELSE FALSE,
                     1, e, <<orig, r>>)
    ELSE RetryResult(orig, FALSE, 1, NoneEval, <<orig>>)

\* ---------------------------------------------------------------- log records
GenCall(r, fb, rnd) ==
    [original_reply |-> r, feedback |-> fb,
     system_prompt |-> get_system_prompt(profile_ok), round |-> rnd]
EvalCall(r, e, who, rnd) ==
    [reply |-> r, verdict |-> e, by |-> who, round |-> rnd,
     system_prompt |-> get_evaluator_system_prompt(profile_ok)]
Sleep(d, rnd) == [delay |-> d, round |-> rnd]
RetryCall(strat, r, fb) == [strategy |-> strat, original_reply |-> r, feedback |-> fb]

\* ---------------------------------------------------------------- profile values
Unreadable == "<unreadable>"
Summaries == {"s1"}
LinkedinContents == {"l1", "l2"}
\* what read_summary_file and read_linkedin_profile find: a content, or a
\* file that cannot be read (FileReadError)
FileStates == [summary : Summaries \cup {Unreadable},
               linkedin : LinkedinContents \cup {Unreadable}]
ProfileName == "Raphael PICARD"

UserProfile(name, summary, linkedin) ==
    [name |-> name, summary |-> summary, linkedin_content |-> linkedin]
\* Optional[UserProfile]: None
NoProfile == UserProfile(None, None, None)
\* a FileReadError raised instead of a profile returned
FileReadError == UserProfile(Raise, Raise, Raise)

\* ---------------------------------------------------------------- initial state
\* no provider client call is running
provider_idle ==
    /\ pclient = "none" /\ ppc = "idle" /\ pmax = 0 /\ pattempt = 0
    /\ pret = None /\ pret_eval = Unbound
    /\ premote = <<>> /\ pwaits = <<>>

services_init ==
    /\ cfg \in Configs
    /\ profile_ok \in BOOLEAN
    /\ rpc = "idle" /\ caller = "none"
    /\ strategy = DefaultStrategy /\ original_reply = None /\ feedback = ""
    /\ attempts = <<>> /\ current_feedback = "" /\ attempt = 0
    /\ range_end = 0 /\ evaluation = Unbound /\ n_attempts = 0
    /\ responses = <<>> /\ evaluations = <<>> /\ best = NoBest
    /\ result = NoResult
    /\ cpc = "idle" /\ gen_outcome = None /\ system_prompt = None
    /\ response = None /\ reply = None
    /\ chat_evaluation = Unbound /\ was_retried = FALSE
    /\ chat_response = NoChatResponse
    /\ gen_calls = <<>> /\ eval_calls = <<>> /\ sleeps = <<>>
    /\ retry_calls = <<>>
    /\ provider_idle
    /\ settings_calls = <<>>

\* the formatter is not in use
formatter_idle ==
    /\ fm_pc = "idle" /\ fm_system_prompt = "" /\ fm_message = ""
    /\ fm_history = <<>> /\ fm_builder = "none" /\ fm_messages = <<>>
    /\ fm_extracted = <<"", <<>> >>

\* ProfileLoader.__init__: nothing cached; no call made yet
loader_constructed ==
    /\ cached_profile = NoProfile /\ loader_call = [op |-> "none"]

\* no evaluate_response call was made
evaluate_idle ==
    /\ ev_provider = <<>> /\ ev_calls = <<>> /\ epoch = 0

Init ==
    /\ services_init
    /\ formatter_idle
    /\ files = [summary |-> "s1", linkedin |-> "l1"] /\ loader_constructed
    /\ evaluate_idle

\* ---------------------------------------------------------------- retry engine
\* a fresh method frame of the retry engine
session_frame(strat, orig, fb, pc, n, re) ==
    /\ rpc' = pc /\ strategy' = strat /\ original_reply' = orig
    /\ feedback' = fb /\ attempts' = <<orig>> /\ current_feedback' = fb
    /\ attempt' = 1 /\ range_end' = re /\ evaluation' = Unbound
    /\ n_attempts' = n /\ responses' = <<>> /\ evaluations' = <<>>
    /\ best' = NoBest /\ result' = NoResult

\* retry_with_evaluation up to the evaluation of range(1, max_retries + 1)
enter_retry_with_evaluation(orig, fb, strat) ==
    session_frame(strat, orig, fb,
                  IF cfg.max_retries >= 1 THEN "rwe_generate" ELSE "rwe_exhausted",
                  0, cfg.max_retries)

\* retry_best_of_n up to its first regeneration
enter_retry_best_of_n(orig, fb, n) ==
    session_frame(BEST_OF_N, orig, fb,
                  IF n >= 1 THEN "bon_generate" ELSE "bon_select", n, 0)

\* mutation: MULTIPLE makes a single retry
retry_with_strategy_multiple_once(orig, fb, strat) ==
    /\ retry_calls' = Append(retry_calls, RetryCall(strat, orig, fb))
    /\ CASE strat \in {SINGLE, MULTIPLE} ->
              session_frame(strat, orig, fb, "single_generate", 0, 0)
         [] strat = PROGRESSIVE ->
              enter_retry_with_evaluation(orig, fb, strat)
         [] strat = BEST_OF_N ->
              enter_retry_best_of_n(orig, fb, DefaultNAttempts)

\* mutation: SINGLE runs the progressive loop
retry_with_strategy_looping(orig, fb, strat) ==
    /\ retry_calls' = Append(retry_calls, RetryCall(strat, orig, fb))
    /\ CASE strat \in {SINGLE, MULTIPLE, PROGRESSIVE} ->
              enter_retry_with_evaluation(orig, fb, strat)
         [] strat = BEST_OF_N ->
              enter_retry_best_of_n(orig, fb, DefaultNAttempts)

\* retry_with_strategy: dispatch on the strategy
retry_with_strategy(orig, fb, strat) ==
    /\ retry_calls' = Append(retry_calls, RetryCall(strat, orig, fb))
    /\ CASE strat = SINGLE ->
              session_frame(strat, orig, fb, "single_generate", 0, 0)
         [] strat \in {MULTIPLE, PROGRESSIVE} ->
              enter_retry_with_evaluation(orig, fb, strat)
         [] strat = BEST_OF_N ->
              enter_retry_best_of_n(orig, fb, DefaultNAttempts)

\* the for loop of retry_with_evaluation moves to its next iteration
next_iteration ==
    IF attempt + 1 <= range_end
    THEN attempt' = attempt + 1 /\ rpc' = "rwe_generate"
    ELSE attempt' = attempt /\ rpc' = "rwe_exhausted"

\* a caller outside the model invokes retry_with_strategy
call_retry_with_strategy ==
    /\ rpc = "idle" /\ cpc = "idle"
    /\ \E strat \in RetryStrategy, orig \in OriginalReplies,
          fb \in InitialFeedbacks :
          retry_with_strategy(orig, fb, strat)
    /\ caller' = "direct"
    /\ UNCHANGED <<cfg, profile_ok, chat_vars, gen_calls, eval_calls, sleeps>>
    /\ UNCHANGED <<provider_vars, settings_calls, core_vars>>

\* a caller outside the model invokes retry_best_of_n with its own n_attempts
call_retry_best_of_n ==
    /\ rpc = "idle" /\ cpc = "idle"
    /\ \E n \in 0..MaxN, orig \in OriginalReplies, fb \in InitialFeedbacks :
          enter_retry_best_of_n(orig, fb, n)
    /\ caller' = "direct"
    /\ UNCHANGED <<cfg, profile_ok, chat_vars, log_vars>>
    /\ UNCHANGED <<provider_vars, settings_calls, core_vars>>

\* mutation: a regeneration without a response ends the loop
rwe_generate_abort ==
    /\ rpc = "rwe_generate"
    /\ \E out \in ProviderOutcomes :
          LET r == retry_response(out) IN
          /\ gen_calls' = Append(gen_calls,
                                 GenCall(Last(attempts), current_feedback, attempt))
          /\ IF ~Truthy(r)
             THEN attempts' = attempts /\ attempt' = attempt
                  /\ rpc' = "rwe_exhausted"
             ELSE /\ attempts' = Append(attempts, r)
                  /\ rpc' = "rwe_evaluate" /\ attempt' = attempt
    /\ UNCHANGED <<cfg, profile_ok, caller, strategy, original_reply, feedback,
                   current_feedback, range_end, evaluation, n_attempts,
                   responses, evaluations, best, result, chat_vars,
                   eval_calls, sleeps, retry_calls>>
    /\ UNCHANGED <<provider_vars, settings_calls, core_vars>>

\* mutation: a missing response is recorded in the trace
rwe_generate_recording_none ==
    /\ rpc = "rwe_generate"
    /\ \E out \in ProviderOutcomes :
          LET r == retry_response(out) IN
          /\ gen_calls' = Append(gen_calls,
                                 GenCall(Last(attempts), current_feedback, attempt))
          /\ IF ~Truthy(r)
             THEN attempts' = Append(attempts, r) /\ next_iteration
             ELSE /\ attempts' = Append(attempts, r)
                  /\ rpc' = "rwe_evaluate" /\ attempt' = attempt
    /\ UNCHANGED <<cfg, profile_ok, caller, strategy, original_reply, feedback,
                   current_feedback, range_end, evaluation, n_attempts,
                   responses, evaluations, best, result, chat_vars,
                   eval_calls, sleeps, retry_calls>>
    /\ UNCHANGED <<provider_vars, settings_calls, core_vars>>

\* retry_with_evaluation: one regeneration (lines 163-175)
rwe_generate ==
    /\ rpc = "rwe_generate"
    /\ \E out \in ProviderOutcomes :
          LET r == retry_response(out) IN
          /\ gen_calls' = Append(gen_calls,
                                 GenCall(Last(attempts), current_feedback, attempt))
          /\ IF ~Truthy(r)
             THEN attempts' = attempts /\ next_iteration
             ELSE /\ attempts' = Append(attempts, r)
                  /\ rpc' = "rwe_evaluate" /\ attempt' = attempt
    /\ UNCHANGED <<cfg, profile_ok, caller, strategy, original_reply, feedback,
                   current_feedback, range_end, evaluation, n_attempts,
                   responses, evaluations, best, result, chat_vars,
                   eval_calls, sleeps, retry_calls>>
    /\ UNCHANGED <<provider_vars, settings_calls, core_vars>>

\* mutation: an evaluation that gave no verdict leaves the previous verdict
\* in place
rwe_evaluate_keeping_verdict ==
    /\ rpc = "rwe_evaluate"
    /\ \E out \in EvaluatorOutcomes :
          LET e == evaluate_response(out) IN
          /\ eval_calls' = Append(eval_calls,
                                  EvalCall(Last(attempts), e, "retry", attempt))
          /\ evaluation' = IF e.kind = "eval" THEN e ELSE evaluation
          /\ IF is_accepted(e)
             THEN /\ result' = RetryResult(Last(attempts), TRUE, attempt, e, attempts)
                  /\ rpc' = "returned"
                  /\ current_feedback' = current_feedback
             ELSE /\ current_feedback' = next_feedback(current_feedback, e)
                  /\ rpc' = "rwe_backoff"
                  /\ result' = result
    /\ UNCHANGED <<cfg, profile_ok, caller, strategy, original_reply, feedback,
                   attempts, attempt, range_end, n_attempts, responses,
                   evaluations, best, chat_vars, gen_calls, sleeps, retry_calls>>
    /\ UNCHANGED <<provider_vars, settings_calls, core_vars>>

\* retry_with_evaluation: evaluation of the new reply (lines 177-199)
rwe_evaluate ==
    /\ rpc = "rwe_evaluate"
    /\ \E out \in EvaluatorOutcomes :
          LET e == evaluate_response(out) IN
          /\ eval_calls' = Append(eval_calls,
                                  EvalCall(Last(attempts), e, "retry", attempt))
          /\ evaluation' = e
          /\ IF is_accepted(e)
             THEN /\ result' = RetryResult(Last(attempts), TRUE, attempt, e, attempts)
                  /\ rpc' = "returned"
                  /\ current_feedback' = current_feedback
             ELSE /\ current_feedback' = next_feedback(current_feedback, e)
                  /\ rpc' = "rwe_backoff"
                  /\ result' = result
    /\ UNCHANGED <<cfg, profile_ok, caller, strategy, original_reply, feedback,
                   attempts, attempt, range_end, n_attempts, responses,
                   evaluations, best, chat_vars, gen_calls, sleeps, retry_calls>>
    /\ UNCHANGED <<provider_vars, settings_calls, core_vars>>

\* retry_with_evaluation: delay before the next attempt (lines 201-208);
\* time.sleep raises ValueError on a negative delay
rwe_backoff ==
    /\ rpc = "rwe_backoff"
    /\ IF attempt < cfg.max_retries
       THEN LET d == delay_before_next(attempt, cfg) IN
            IF d < 0
            THEN rpc' = "raised" /\ attempt' = attempt /\ sleeps' = sleeps
            ELSE sleeps' = Append(sleeps, Sleep(d, attempt)) /\ next_iteration
       ELSE sleeps' = sleeps /\ next_iteration
    /\ UNCHANGED <<cfg, profile_ok, caller, strategy, original_reply, feedback,
                   attempts, current_feedback, range_end, evaluation,
                   n_attempts, responses, evaluations, best, result,
                   chat_vars, gen_calls, eval_calls, retry_calls>>
    /\ UNCHANGED <<provider_vars, settings_calls, core_vars>>

\* mutation: exhaustion raises instead of returning
rwe_exhausted_raises ==
    /\ rpc = "rwe_exhausted"
    /\ result' = result
    /\ rpc' = "raised"
    /\ UNCHANGED <<cfg, profile_ok, caller, strategy, original_reply, feedback,
                   attempts, current_feedback, attempt, range_end, evaluation,
                   n_attempts, responses, evaluations, best, chat_vars,
                   log_vars>>
    /\ UNCHANGED <<provider_vars, settings_calls, core_vars>>

\* retry_with_evaluation: all retries failed (lines 210-222)
rwe_exhausted ==
    /\ rpc = "rwe_exhausted"
    /\ result' = exhausted_result(attempts, original_reply, evaluation, cfg)
    /\ rpc' = "returned"
    /\ UNCHANGED <<cfg, profile_ok, caller, strategy, original_reply, feedback,
                   attempts, current_feedback, attempt, range_end, evaluation,
                   n_attempts, responses, evaluations, best, chat_vars,
                   log_vars>>
    /\ UNCHANGED <<provider_vars, settings_calls, core_vars>>

\* retry_with_strategy, SINGLE: the one regeneration (lines 321-328, 343-350)
single_generate ==
    /\ rpc = "single_generate"
    /\ \E out \in ProviderOutcomes :
          LET r == retry_response(out) IN
          /\ gen_calls' = Append(gen_calls, GenCall(original_reply, feedback, 1))
          /\ IF Truthy(r)
             THEN /\ attempts' = Append(attempts, r)
                  /\ rpc' = "single_evaluate" /\ result' = result
             ELSE /\ attempts' = attempts
                  /\ result' = single_result(original_reply, r, NoneEval)
                  /\ rpc' = "returned"
    /\ UNCHANGED <<cfg, profile_ok, caller, strategy, original_reply, feedback,
                   current_feedback, attempt, range_end, evaluation,
                   n_attempts, responses, evaluations, best, chat_vars,
                   eval_calls, sleeps, retry_calls>>
    /\ UNCHANGED <<provider_vars, settings_calls, core_vars>>

\* retry_with_strategy, SINGLE: the one evaluation (lines 329-342)
single_evaluate ==
    /\ rpc = "single_evaluate"
    /\ \E out \in EvaluatorOutcomes :
          LET e == evaluate_response(out) IN
          /\ eval_calls' = Append(eval_calls, EvalCall(Last(attempts), e, "retry", 1))
          /\ evaluation' = e
          /\ result' = single_result(original_reply, Last(attempts), e)
    /\ rpc' = "returned"
    /\ UNCHANGED <<cfg, profile_ok, caller, strategy, original_reply, feedback,
                   attempts, current_feedback, attempt, range_end, n_attempts,
                   responses, evaluations, best, chat_vars, gen_calls, sleeps,
                   retry_calls>>
    /\ UNCHANGED <<provider_vars, settings_calls, core_vars>>

\* mutation: each candidate is generated from the previous one
bon_generate_chained ==
    /\ rpc = "bon_generate"
    /\ \E out \in ProviderOutcomes :
          LET r == retry_response(out) IN
          /\ gen_calls' = Append(gen_calls, GenCall(Last(attempts), feedback, attempt))
          /\ attempts' = IF Truthy(r) THEN Append(attempts, r) ELSE attempts
    /\ IF attempt + 1 <= n_attempts
       THEN attempt' = attempt + 1 /\ rpc' = "bon_generate"
       ELSE attempt' = attempt /\ rpc' = "bon_select"
    /\ UNCHANGED <<cfg, profile_ok, caller, strategy, original_reply, feedback,
                   current_feedback, range_end, evaluation, n_attempts,
                   responses, evaluations, best, result, chat_vars,
                   eval_calls, sleeps, retry_calls>>
    /\ UNCHANGED <<provider_vars, settings_calls, core_vars>>

\* retry_best_of_n: one regeneration of the candidate loop (lines 251-261)
bon_generate ==
    /\ rpc = "bon_generate"
    /\ \E out \in ProviderOutcomes :
          LET r == retry_response(out) IN
          /\ gen_calls' = Append(gen_calls, GenCall(original_reply, feedback, attempt))
          /\ attempts' = IF Truthy(r) THEN Append(attempts, r) ELSE attempts
    /\ IF attempt + 1 <= n_attempts
       THEN attempt' = attempt + 1 /\ rpc' = "bon_generate"
       ELSE attempt' = attempt /\ rpc' = "bon_select"
    /\ UNCHANGED <<cfg, profile_ok, caller, strategy, original_reply, feedback,
                   current_feedback, range_end, evaluation, n_attempts,
                   responses, evaluations, best, result, chat_vars,
                   eval_calls, sleeps, retry_calls>>
    /\ UNCHANGED <<provider_vars, settings_calls, core_vars>>

\* mutation: an empty list gives an empty reply
enter_find_best_response_empty_reply(resps) ==
    /\ responses' = resps /\ evaluations' = <<>>
    /\ IF Len(resps) = 0
       THEN best' = Best("", NoneEval) /\ rpc' = "fbr_returned"
       ELSE best' = NoBest /\ rpc' = "fbr_evaluate"

\* find_best_response up to its first evaluation (lines 126-130)
enter_find_best_response(resps) ==
    /\ responses' = resps /\ evaluations' = <<>>
    /\ IF Len(resps) = 0
       THEN best' = Best(None, NoneEval) /\ rpc' = "fbr_returned"
       ELSE best' = NoBest /\ rpc' = "fbr_evaluate"

\* retry_best_of_n: hand the candidates to find_best_response, or fail at
\* once when there is none (lines 263-268, 284-296)
bon_select ==
    /\ rpc = "bon_select"
    /\ IF Len(attempts) > 1
       THEN enter_find_best_response(Tail(attempts)) /\ result' = result
       ELSE /\ result' = best_of_n_result(attempts, original_reply, NoBest)
            /\ rpc' = "returned"
            /\ UNCHANGED <<responses, evaluations, best>>
    /\ UNCHANGED <<cfg, profile_ok, caller, strategy, original_reply, feedback,
                   attempts, current_feedback, attempt, range_end, evaluation,
                   n_attempts, chat_vars, log_vars>>
    /\ UNCHANGED <<provider_vars, settings_calls, core_vars>>

\* a caller outside the model invokes find_best_response on its own list
call_find_best_response ==
    /\ rpc = "idle" /\ cpc = "idle"
    /\ \E n \in 0..MaxN : \E resps \in [1..n -> Texts] :
          enter_find_best_response(resps)
    /\ caller' = "find_best_response"
    /\ UNCHANGED <<cfg, profile_ok, strategy, original_reply, feedback,
                   attempts, current_feedback, attempt, range_end, evaluation,
                   n_attempts, result, chat_vars, log_vars>>
    /\ UNCHANGED <<provider_vars, settings_calls, core_vars>>

\* mutation: the verdicts are collected in reverse order
fbr_evaluate_reversed ==
    /\ rpc = "fbr_evaluate"
    /\ \E out \in EvaluatorOutcomes :
          LET e == evaluate_response(out)
              i == Len(evaluations) + 1
              evals == <<e>> \o evaluations IN
          /\ eval_calls' = Append(eval_calls, EvalCall(responses[i], e, "find_best", i))
          /\ evaluations' = evals
          /\ IF i = Len(responses)
             THEN best' = find_best_response(responses, evals) /\ rpc' = "fbr_returned"
             ELSE best' = best /\ rpc' = "fbr_evaluate"
    /\ UNCHANGED <<cfg, profile_ok, caller, strategy, original_reply, feedback,
                   attempts, current_feedback, attempt, range_end, evaluation,
                   n_attempts, responses, result, chat_vars, gen_calls,
                   sleeps, retry_calls>>
    /\ UNCHANGED <<provider_vars, settings_calls, core_vars>>

\* mutation: the evaluations stop at the first acceptable reply
fbr_evaluate_short_circuit ==
    /\ rpc = "fbr_evaluate"
    /\ \E out \in EvaluatorOutcomes :
          LET e == evaluate_response(out)
              i == Len(evaluations) + 1
              evals == Append(evaluations, e) IN
          /\ eval_calls' = Append(eval_calls, EvalCall(responses[i], e, "find_best", i))
          /\ evaluations' = evals
          /\ IF i = Len(responses) \/ is_accepted(e)
             THEN best' = find_best_response(responses, evals) /\ rpc' = "fbr_returned"
             ELSE best' = best /\ rpc' = "fbr_evaluate"
    /\ UNCHANGED <<cfg, profile_ok, caller, strategy, original_reply, feedback,
                   attempts, current_feedback, attempt, range_end, evaluation,
                   n_attempts, responses, result, chat_vars, gen_calls,
                   sleeps, retry_calls>>
    /\ UNCHANGED <<provider_vars, settings_calls, core_vars>>

\* evaluate_multiple_responses: one evaluation of its loop; after the last
\* one find_best_response selects and returns (lines 99-102, 130-140)
fbr_evaluate ==
    /\ rpc = "fbr_evaluate"
    /\ \E out \in EvaluatorOutcomes :
          LET e == evaluate_response(out)
              i == Len(evaluations) + 1
              evals == Append(evaluations, e) IN
          /\ eval_calls' = Append(eval_calls, EvalCall(responses[i], e, "find_best", i))
          /\ evaluations' = evals
          /\ IF i = Len(responses)
             THEN best' = find_best_response(responses, evals) /\ rpc' = "fbr_returned"
             ELSE best' = best /\ rpc' = "fbr_evaluate"
    /\ UNCHANGED <<cfg, profile_ok, caller, strategy, original_reply, feedback,
                   attempts, current_feedback, attempt, range_end, evaluation,
                   n_attempts, responses, result, chat_vars, gen_calls,
                   sleeps, retry_calls>>
    /\ UNCHANGED <<provider_vars, settings_calls, core_vars>>

\* retry_best_of_n: build the result from the selection (lines 270-296)
bon_finish ==
    /\ rpc = "fbr_returned" /\ caller # "find_best_response"
    /\ result' = best_of_n_result(attempts, original_reply, best)
    /\ rpc' = "returned"
    /\ UNCHANGED <<cfg, profile_ok, caller, strategy, original_reply, feedback,
                   attempts, current_feedback, attempt, range_end, evaluation,
                   n_attempts, responses, evaluations, best, chat_vars,
                   log_vars>>
    /\ UNCHANGED <<provider_vars, settings_calls, core_vars>>

\* ---------------------------------------------------------------- orchestrator
\* a caller invokes process_chat_request
call_process_chat_request ==
    /\ rpc = "idle" /\ cpc = "idle"
    /\ cpc' = "generate"
    /\ UNCHANGED <<cfg, profile_ok, session_vars, gen_outcome, system_prompt,
                   response, reply,
                   chat_evaluation, was_retried, chat_response, log_vars>>
    /\ UNCHANGED <<provider_vars, settings_calls, core_vars>>

\* process_chat_request: initial generation (lines 84-86); gen_outcome is
\* what the generation provider has for this request
chat_generate ==
    /\ cpc = "generate"
    /\ \E out \in ProviderOutcomes :
          /\ gen_outcome' = out
          /\ system_prompt' = get_system_prompt(profile_ok)
          /\ response' = generate_response(out)
          /\ reply' = initial_reply(generate_response(out))
    /\ cpc' = "evaluate"
    /\ UNCHANGED <<cfg, profile_ok, session_vars, chat_evaluation,
                   was_retried, chat_response, log_vars>>
    /\ UNCHANGED <<provider_vars, settings_calls, core_vars>>

\* process_chat_request: evaluation of the reply and the three branches on
\* the verdict (lines 88-111, 124-130)
chat_evaluate ==
    /\ cpc = "evaluate"
    /\ \E out \in EvaluatorOutcomes :
          LET e == evaluate_response(out) IN
          /\ eval_calls' = Append(eval_calls, EvalCall(reply, e, "chat", 0))
          /\ chat_evaluation' = e
          /\ IF ~is_accepted(e) /\ e.kind = "eval"
             THEN /\ retry_with_strategy(reply, e.feedback, DefaultStrategy)
                  /\ caller' = "chat"
                  /\ cpc' = "retrying"
                  /\ chat_response' = chat_response
             ELSE /\ chat_response' = ChatResponse(reply, e, FALSE)
                  /\ cpc' = "done"
                  /\ UNCHANGED <<session_vars, retry_calls>>
    /\ UNCHANGED <<cfg, profile_ok, gen_outcome, system_prompt,
                   response, reply, was_retried,
                   gen_calls, sleeps>>
    /\ UNCHANGED <<provider_vars, settings_calls, core_vars>>

\* mutation: the retry result's reply is taken whether or not it succeeded
chat_retry_return_always ==
    /\ cpc = "retrying" /\ rpc = "returned"
    /\ reply' = result.final_response
    /\ was_retried' = result.was_successful
    /\ chat_response' = ChatResponse(reply', chat_evaluation, was_retried')
    /\ cpc' = "done"
    /\ UNCHANGED <<cfg, profile_ok, session_vars, gen_outcome, system_prompt,
                   response,
                   chat_evaluation, log_vars>>
    /\ UNCHANGED <<provider_vars, settings_calls, core_vars>>

\* mutation: a successful retry is not reported as retried
chat_retry_return_unflagged ==
    /\ cpc = "retrying" /\ rpc = "returned"
    /\ reply' = (IF result.was_successful THEN result.final_response ELSE reply)
    /\ was_retried' = was_retried
    /\ chat_response' = ChatResponse(reply', chat_evaluation, was_retried')
    /\ cpc' = "done"
    /\ UNCHANGED <<cfg, profile_ok, session_vars, gen_outcome, system_prompt,
                   response,
                   chat_evaluation, log_vars>>
    /\ UNCHANGED <<provider_vars, settings_calls, core_vars>>

\* mutation: the session's last reply is returned as retried whether or not
\* it was accepted
chat_retry_return_flagging_failure ==
    /\ cpc = "retrying" /\ rpc = "returned"
    /\ reply' = result.final_response
    /\ was_retried' = TRUE
    /\ chat_response' = ChatResponse(reply', chat_evaluation, was_retried')
    /\ cpc' = "done"
    /\ UNCHANGED <<cfg, profile_ok, session_vars, gen_outcome, system_prompt,
                   response,
                   chat_evaluation, log_vars>>
    /\ UNCHANGED <<provider_vars, settings_calls, core_vars>>

\* mutation: a successful retry also replaces the evaluation returned
chat_retry_return_retry_verdict ==
    /\ cpc = "retrying" /\ rpc = "returned"
    /\ IF result.was_successful
       THEN reply' = result.final_response /\ was_retried' = TRUE
       ELSE reply' = reply /\ was_retried' = was_retried
    /\ chat_response' =
          ChatResponse(reply',
                       IF result.was_successful THEN result.final_evaluation
                       ELSE chat_evaluation,
                       was_retried')
    /\ cpc' = "done"
    /\ UNCHANGED <<cfg, profile_ok, session_vars, gen_outcome, system_prompt,
                   response,
                   chat_evaluation, log_vars>>
    /\ UNCHANGED <<provider_vars, settings_calls, core_vars>>

\* process_chat_request: the retry result comes back (lines 113-130)
chat_retry_return ==
    /\ cpc = "retrying" /\ rpc = "returned"
    /\ IF result.was_successful
       THEN reply' = result.final_response /\ was_retried' = TRUE
       ELSE reply' = reply /\ was_retried' = was_retried
    /\ chat_response' = ChatResponse(reply', chat_evaluation, was_retried')
    /\ cpc' = "done"
    /\ UNCHANGED <<cfg, profile_ok, session_vars, gen_outcome, system_prompt,
                   response,
                   chat_evaluation, log_vars>>
    /\ UNCHANGED <<provider_vars, settings_calls, core_vars>>

\* mutation: the handler returns the reply in hand
chat_except_keeps_reply ==
    /\ cpc = "retrying" /\ rpc = "raised"
    /\ chat_response' = ChatResponse(reply, chat_evaluation, FALSE)
    /\ cpc' = "done"
    /\ UNCHANGED <<cfg, profile_ok, session_vars, gen_outcome, system_prompt,
                   response, reply,
                   chat_evaluation, was_retried, log_vars>>
    /\ UNCHANGED <<provider_vars, settings_calls, core_vars>>

\* process_chat_request: an exception reaches the try block (lines 132-140)
chat_except ==
    /\ cpc = "retrying" /\ rpc = "raised"
    /\ chat_response' = ChatResponse(ErrorMessage, NoneEval, FALSE)
    /\ cpc' = "done"
    /\ UNCHANGED <<cfg, profile_ok, session_vars, gen_outcome, system_prompt,
                   response, reply,
                   chat_evaluation, was_retried, log_vars>>
    /\ UNCHANGED <<provider_vars, settings_calls, core_vars>>

\* ---------------------------------------------------------------- specification
Next ==
    \/ call_retry_with_strategy
    \/ call_retry_best_of_n
    \/ call_find_best_response
    \/ call_process_chat_request
    \/ rwe_generate
    \/ rwe_evaluate
    \/ rwe_backoff
    \/ rwe_exhausted
    \/ single_generate
    \/ single_evaluate
    \/ bon_generate
    \/ bon_select
    \/ fbr_evaluate
    \/ bon_finish
    \/ chat_generate
    \/ chat_evaluate
    \/ chat_retry_return
    \/ chat_except

Spec == Init /\ [][Next]_vars

\* ---------------------------------------------------------------- provider clients
\* settings.MAX_RETRIES, the default of both clients
MAX_RETRIES == 3
\* largest max_retries argument explored
MaxProviderRetries == 3
\* the max_retries argument; 0 stands for the omitted argument (None) and
\* for 0, which `or` treats alike; -1 for a negative one
MaxRetriesArgs == {-1} \cup (0..MaxProviderRetries)

\* `max_retries = max_retries or self.max_retries`
effective_max_retries(mr) == IF mr = 0 THEN MAX_RETRIES ELSE mr

\* one remote call: its attempt index and what the endpoint gave
Remote(i, c, p) == [index |-> i, content |-> c, parsed |-> p]
\* one time.sleep(wait_time) of the except block
Wait(i, w) == [after |-> i, time |-> w]

\* entry of a client method up to `for attempt in range(max_retries)`
provider_enter(client, mr) ==
    /\ pclient' = client
    /\ pmax' = effective_max_retries(mr)
    /\ pattempt' = 0
    /\ premote' = <<>> /\ pwaits' = <<>>
    /\ pret' = None
    /\ IF effective_max_retries(mr) > 0
       THEN ppc' = "attempt" /\ pret_eval' = Unbound
       ELSE /\ ppc' = "returned"
            /\ pret_eval' = IF client = "gemini_eval" THEN NoneEval ELSE Unbound
    /\ UNCHANGED <<cfg, profile_ok, session_vars, chat_vars, log_vars,
                   settings_calls, core_vars>>

\* mutation: giving up yields a rejecting verdict
provider_return_rejection ==
    /\ ppc' = "returned" /\ pattempt' = pattempt
    /\ pret' = None
    /\ pret_eval' = IF pclient = "gemini_eval" THEN Eval(FALSE, "") ELSE pret_eval

\* `return None`
provider_return_none ==
    /\ ppc' = "returned" /\ pattempt' = pattempt
    /\ pret' = None
    /\ pret_eval' = IF pclient = "gemini_eval" THEN NoneEval ELSE pret_eval

\* the for loop takes its next iteration, or ends and the method returns None
provider_next_attempt ==
    IF pattempt + 1 < pmax
    THEN pattempt' = pattempt + 1 /\ ppc' = "attempt" /\ UNCHANGED <<pret, pret_eval>>
    ELSE provider_return_none

\* mutation: the wait grows linearly
provider_except_linear ==
    IF pattempt = pmax - 1
    THEN provider_return_none /\ pwaits' = pwaits
    ELSE /\ pwaits' = Append(pwaits, Wait(pattempt, 2 * pattempt))
         /\ provider_next_attempt

\* the except block shared by the three loops: give up on the last attempt,
\* else sleep 2**attempt and go on
provider_except ==
    IF pattempt = pmax - 1
    THEN provider_return_none /\ pwaits' = pwaits
    ELSE /\ pwaits' = Append(pwaits, Wait(pattempt, Pow(2, pattempt)))
         /\ provider_next_attempt

\* a caller outside the model invokes the method
call_openai_create_chat_completion ==
    /\ ppc = "idle" /\ rpc = "idle" /\ cpc = "idle"
    /\ \E mr \in MaxRetriesArgs : provider_enter("openai", mr)

\* a caller outside the model invokes the method
call_gemini_create_chat_completion ==
    /\ ppc = "idle" /\ rpc = "idle" /\ cpc = "idle"
    /\ \E mr \in MaxRetriesArgs : provider_enter("gemini_chat", mr)

\* a caller outside the model invokes the method
call_gemini_create_evaluation_completion ==
    /\ ppc = "idle" /\ rpc = "idle" /\ cpc = "idle"
    /\ \E mr \in MaxRetriesArgs : provider_enter("gemini_eval", mr)

\* OpenAIClient.create_chat_completion: one iteration of the loop; the
\* content of a response is returned as it is
openai_attempt ==
    /\ pclient = "openai" /\ ppc = "attempt"
    /\ \E out \in ProviderOutcomes :
          /\ premote' = Append(premote, Remote(pattempt, out, NoneEval))
          /\ IF out # Raise
             THEN /\ pret' = out /\ ppc' = "returned"
                  /\ UNCHANGED <<pattempt, pret_eval, pwaits>>
             ELSE provider_except
    /\ UNCHANGED <<pclient, pmax, cfg, profile_ok, session_vars, chat_vars,
                   log_vars, settings_calls, core_vars>>

\* GeminiClient.create_chat_completion: one iteration of the loop; a falsy
\* content falls through to the next iteration without a wait
gemini_chat_attempt ==
    /\ pclient = "gemini_chat" /\ ppc = "attempt"
    /\ \E out \in ProviderOutcomes :
          /\ premote' = Append(premote, Remote(pattempt, out, NoneEval))
          /\ IF out = Raise THEN provider_except
             ELSE IF Truthy(out)
             THEN /\ pret' = out /\ ppc' = "returned"
                  /\ UNCHANGED <<pattempt, pret_eval, pwaits>>
             ELSE provider_next_attempt /\ pwaits' = pwaits
    /\ UNCHANGED <<pclient, pmax, cfg, profile_ok, session_vars, chat_vars,
                   log_vars, settings_calls, core_vars>>

\* GeminiClient.create_evaluation_completion: one iteration of the loop; a
\* response without a parsed object falls through to the next iteration
gemini_eval_attempt ==
    /\ pclient = "gemini_eval" /\ ppc = "attempt"
    /\ \E out \in EvaluatorOutcomes :
          /\ premote' = Append(premote, Remote(pattempt, None, out))
          /\ IF out.kind = "raise" THEN provider_except
             ELSE IF out.kind = "eval"
             THEN /\ pret_eval' = out /\ ppc' = "returned"
                  /\ UNCHANGED <<pattempt, pret, pwaits>>
             ELSE provider_next_attempt /\ pwaits' = pwaits
    /\ UNCHANGED <<pclient, pmax, cfg, profile_ok, session_vars, chat_vars,
                   log_vars, settings_calls, core_vars>>

ProviderInit ==
    /\ Init
    /\ cfg = [max_retries |-> 1, base_delay |-> 2, max_delay |-> 3,
              backoff_factor |-> 2]
    /\ profile_ok = TRUE

ProviderNext ==
    \/ call_openai_create_chat_completion
    \/ call_gemini_create_chat_completion
    \/ call_gemini_create_evaluation_completion
    \/ openai_attempt
    \/ gemini_chat_attempt
    \/ gemini_eval_attempt

SpecProvider == ProviderInit /\ [][ProviderNext]_vars

\* ---------------------------------------------------------------- update_settings
\* the four settings of a RetryService
Fields == {"max_retries", "base_delay", "max_delay", "backoff_factor"}
FieldValues(f) == {c[f] : c \in Configs}

\* the keyword arguments of one update_settings call: the arguments that
\* are not None, with their values
Kwargs ==
    UNION {{kw \in [S -> UNION {FieldValues(f) : f \in Fields}] :
               \A f \in S : kw[f] \in FieldValues(f)} : S \in SUBSET Fields}

\* most update_settings calls between sessions in one behaviour
MaxUpdates == 2
\* most update_settings calls made by another thread during a session
MaxConcurrentUpdates == 1

\* mutation: an absent max_retries falls back to the constructor's default
update_settings_resetting(c, kw) ==
    [max_retries    |-> IF "max_retries" \in DOMAIN kw
                        THEN kw["max_retries"] ELSE 3,
     base_delay     |-> IF "base_delay" \in DOMAIN kw
                        THEN kw["base_delay"] ELSE c.base_delay,
     max_delay      |-> IF "max_delay" \in DOMAIN kw
                        THEN kw["max_delay"] ELSE c.max_delay,
     backoff_factor |-> IF "backoff_factor" \in DOMAIN kw
                        THEN kw["backoff_factor"] ELSE c.backoff_factor]

\* RetryService.update_settings: each argument that is not None is assigned
update_settings(c, kw) ==
    [max_retries    |-> IF "max_retries" \in DOMAIN kw
                        THEN kw["max_retries"] ELSE c.max_retries,
     base_delay     |-> IF "base_delay" \in DOMAIN kw
                        THEN kw["base_delay"] ELSE c.base_delay,
     max_delay      |-> IF "max_delay" \in DOMAIN kw
                        THEN kw["max_delay"] ELSE c.max_delay,
     backoff_factor |-> IF "backoff_factor" \in DOMAIN kw
                        THEN kw["backoff_factor"] ELSE c.backoff_factor]

SettingsCall(kw, before, after, pc) ==
    [kwargs |-> kw, before |-> before, after |-> after, rpc |-> pc]

\* one update_settings call on the shared RetryService
do_update_settings ==
    /\ \E kw \in Kwargs :
          /\ cfg' = update_settings(cfg, kw)
          /\ settings_calls' =
                Append(settings_calls,
                       SettingsCall(kw, cfg, update_settings(cfg, kw), rpc))
    /\ UNCHANGED <<profile_ok, session_vars, chat_vars, log_vars, provider_vars,
                   core_vars>>

\* update_settings is called while no session runs
call_update_settings ==
    /\ rpc = "idle" /\ cpc = "idle" /\ ppc = "idle"
    /\ Len(settings_calls) < MaxUpdates
    /\ do_update_settings

\* update_settings is called by another thread while a
\* retry_with_evaluation session of the global retry service is in flight
concurrent_update_settings ==
    /\ rpc \in {"rwe_generate", "rwe_evaluate", "rwe_backoff", "rwe_exhausted"}
    /\ Len(settings_calls) < MaxConcurrentUpdates
    /\ do_update_settings

\* update_settings alone
UpdateNext ==
    \/ call_update_settings

SpecUpdate == Init /\ [][UpdateNext]_vars

\* the retry engine with settings updates during its sessions
SettingsInit ==
    /\ Init
    /\ profile_ok = TRUE
    /\ cfg = [max_retries |-> 2, base_delay |-> 2, max_delay |-> 3,
              backoff_factor |-> 2]

SettingsNext ==
    \/ call_retry_with_strategy
    \/ rwe_generate
    \/ rwe_evaluate
    \/ rwe_backoff
    \/ rwe_exhausted
    \/ single_generate
    \/ single_evaluate
    \/ bon_generate
    \/ bon_select
    \/ fbr_evaluate
    \/ bon_finish
    \/ concurrent_update_settings

SpecSettings == SettingsInit /\ [][SettingsNext]_vars

\* ---------------------------------------------------------------- message formatter
MaxHistory == 2
SystemPrompts == {"s"}
UserTexts == {"", "u"}
AssistantTexts == {"", "a"}
CurrentMessages == {"", "m"}
HistoryPairs == UserTexts \X AssistantTexts
Histories == UNION {[1..n -> HistoryPairs] : n \in 0..MaxHistory}

\* a ChatCompletionMessageParam
Message(role, content) == [role |-> role, content |-> content]

RECURSIVE gradio_history_to_openai_messages(_)
\* MessageFormatter.gradio_history_to_openai_messages: a truthy user entry
\* becomes a user message, a truthy assistant entry an assistant message
gradio_history_to_openai_messages(history) ==
    IF history = <<>> THEN <<>>
    ELSE (IF Truthy(Head(history)[1])
          THEN <<Message("user", Head(history)[1])>> ELSE <<>>)
         \o (IF Truthy(Head(history)[2])
             THEN <<Message("assistant", Head(history)[2])>> ELSE <<>>)
         \o gradio_history_to_openai_messages(Tail(history))

\* MessageFormatter.build_chat_messages
build_chat_messages(sp, current_message, history) ==
    <<Message("system", sp)>>
    \o gradio_history_to_openai_messages(history)
    \o <<Message("user", current_message)>>

\* PromptTemplates.get_retry_system_prompt: the base prompt extended with the
\* rejected reply and the feedback
get_retry_system_prompt(base, rejected_reply, fb) ==
    <<base, "## Previous answer rejected", rejected_reply, fb>>

\* MessageFormatter.build_retry_messages: the history is already a list of
\* messages
build_retry_messages(updated_system_prompt, current_message, history_messages) ==
    <<Message("system", updated_system_prompt)>>
    \o history_messages
    \o <<Message("user", current_message)>>

\* str(content) if content else ""
str_or_empty(content) == IF Truthy(content) THEN content ELSE ""

\* the while loop of extract_content_from_messages, from (1-based) index i
RECURSIVE group_pairs(_, _)
group_pairs(hm, i) ==
    IF i >= Len(hm) THEN <<>>
    ELSE IF hm[i].role = "user" /\ hm[i + 1].role = "assistant"
    THEN << <<str_or_empty(hm[i].content), str_or_empty(hm[i + 1].content)>> >>
         \o group_pairs(hm, i + 2)
    ELSE group_pairs(hm, i + 1)

\* MessageFormatter.extract_content_from_messages: (current_message,
\* history_pairs)
extract_content_from_messages(messages) ==
    LET conversation_messages ==
            IF Len(messages) > 1 THEN Tail(messages) ELSE <<>>
        history_pairs ==
            IF Len(conversation_messages) > 1
            THEN group_pairs(SubSeq(conversation_messages, 1,
                                    Len(conversation_messages) - 1), 1)
            ELSE <<>>
        current_message ==
            IF /\ conversation_messages # <<>>
               /\ Last(conversation_messages).role = "user"
            THEN str_or_empty(Last(conversation_messages).content)
            ELSE ""
    IN  <<current_message, history_pairs>>

formatter_frame ==
    UNCHANGED <<cfg, profile_ok, session_vars, chat_vars, log_vars,
                provider_vars, settings_calls, loader_vars, evaluate_vars>>

\* build_chat_messages is called, as ChatService.generate_response does
call_build_chat_messages ==
    /\ fm_pc = "idle"
    /\ fm_messages' = build_chat_messages(fm_system_prompt, fm_message, fm_history)
    /\ fm_builder' = "chat" /\ fm_pc' = "built"
    /\ UNCHANGED <<fm_system_prompt, fm_message, fm_history, fm_extracted>>
    /\ formatter_frame

\* build_retry_messages is called, as RetryService.retry_response does: on
\* the converted history, with the retry system prompt
call_build_retry_messages ==
    /\ fm_pc = "idle"
    /\ \E r \in OriginalReplies, fb \in InitialFeedbacks :
          fm_messages' =
              build_retry_messages(
                  get_retry_system_prompt(fm_system_prompt, r, fb),
                  fm_message,
                  gradio_history_to_openai_messages(fm_history))
    /\ fm_builder' = "retry" /\ fm_pc' = "built"
    /\ UNCHANGED <<fm_system_prompt, fm_message, fm_history, fm_extracted>>
    /\ formatter_frame

\* extract_content_from_messages is called on the conversation built
call_extract_content_from_messages ==
    /\ fm_pc = "built"
    /\ fm_extracted' = extract_content_from_messages(fm_messages)
    /\ fm_pc' = "extracted"
    /\ UNCHANGED <<fm_system_prompt, fm_message, fm_history, fm_builder,
                   fm_messages>>
    /\ formatter_frame

\* the formatter alone, on every input within the bounds
FormatterInit ==
    /\ services_init
    /\ cfg = [max_retries |-> 1, base_delay |-> 2, max_delay |-> 3,
              backoff_factor |-> 2]
    /\ profile_ok = TRUE
    /\ files = [summary |-> "s1", linkedin |-> "l1"] /\ loader_constructed
    /\ evaluate_idle
    /\ fm_pc = "idle"
    /\ fm_system_prompt \in SystemPrompts
    /\ fm_message \in CurrentMessages
    /\ fm_history \in Histories
    /\ fm_builder = "none" /\ fm_messages = <<>>
    /\ fm_extracted = <<"", <<>> >>

FormatterNext ==
    \/ call_build_chat_messages
    \/ call_build_retry_messages
    \/ call_extract_content_from_messages

SpecFormatter == FormatterInit /\ [][FormatterNext]_vars

\* ---------------------------------------------------------------- profile loader
\* what a loader method did: the value returned (Raise for FileReadError),
\* the cache it leaves, the files it read
Loaded(ret, cache, reads) == [ret |-> ret, cache |-> cache, reads |-> reads]

\* ProfileLoader.load_profile: the cached profile when asked for and present;
\* otherwise the summary is read, then the LinkedIn file, and the profile is
\* cached only when both were read
load_profile(cache, f, use_cache) ==
    IF use_cache /\ cache # NoProfile
    THEN Loaded(cache, cache, <<>>)
    ELSE IF f.summary = Unreadable
    THEN Loaded(FileReadError, cache, <<"summary">>)
    ELSE IF f.linkedin = Unreadable
    THEN Loaded(FileReadError, cache, <<"summary", "linkedin">>)
    ELSE Loaded(UserProfile(ProfileName, f.summary, f.linkedin),
                UserProfile(ProfileName, f.summary, f.linkedin),
                <<"summary", "linkedin">>)

\* mutation: refreshing keeps the cache until the new profile is read
refresh_profile_keeping(cache, f) == load_profile(cache, f, FALSE)

\* ProfileLoader.refresh_profile: the cache is emptied, then load_profile
\* (use_cache=False)
refresh_profile(cache, f) == load_profile(NoProfile, f, FALSE)

\* ProfileLoader.clear_cache
clear_cache(cache) == Loaded(NoProfile, NoProfile, <<>>)

\* ProfileLoader.is_profile_loaded
is_profile_loaded(cache) == cache # NoProfile

\* ProfileLoader.get_profile_info, get_info: the tuple of the profile loaded
\* with the cache in use (a tuple of Raise when load_profile raised)
get_info(cache, f) ==
    LET l == load_profile(cache, f, TRUE)
    IN  Loaded(<<l.ret.name, l.ret.summary, l.ret.linkedin_content>>,
               l.cache, l.reads)

LoaderCall(op, use_cache, before, f, l) ==
    [op |-> op, use_cache |-> use_cache, before |-> before, files |-> f,
     ret |-> l.ret, reads |-> l.reads, after |-> l.cache]

loader_frame ==
    UNCHANGED <<cfg, profile_ok, session_vars, chat_vars, log_vars,
                provider_vars, settings_calls, formatter_vars, evaluate_vars>>

call_load_profile ==
    /\ \E use_cache \in BOOLEAN :
          LET l == load_profile(cached_profile, files, use_cache)
          IN  /\ cached_profile' = l.cache
              /\ loader_call' = LoaderCall("load_profile", use_cache,
                                           cached_profile, files, l)
    /\ files' = files
    /\ loader_frame

call_refresh_profile ==
    /\ LET l == refresh_profile(cached_profile, files)
       IN  /\ cached_profile' = l.cache
           /\ loader_call' = LoaderCall("refresh_profile", FALSE,
                                        cached_profile, files, l)
    /\ files' = files
    /\ loader_frame

call_clear_cache ==
    /\ LET l == clear_cache(cached_profile)
       IN  /\ cached_profile' = l.cache
           /\ loader_call' = LoaderCall("clear_cache", FALSE,
                                        cached_profile, files, l)
    /\ files' = files
    /\ loader_frame

\* the profile files are replaced, removed or restored
change_files ==
    /\ \E f \in FileStates \ {files} : files' = f
    /\ UNCHANGED <<cached_profile, loader_call>>
    /\ loader_frame

\* the profile loader alone, in every state of the files
LoaderInit ==
    /\ services_init
    /\ cfg = [max_retries |-> 1, base_delay |-> 2, max_delay |-> 3,
              backoff_factor |-> 2]
    /\ profile_ok = TRUE
    /\ formatter_idle
    /\ evaluate_idle
    /\ files \in FileStates
    /\ loader_constructed

LoaderNext ==
    \/ call_load_profile
    \/ call_refresh_profile
    \/ call_clear_cache
    \/ change_files

SpecLoader == LoaderInit /\ [][LoaderNext]_vars

\* ---------------------------------------------------------------- evaluate_response
MaxEvaluations == 2
MaxStateChanges == 1
EvaluatedReplies == {"a", "b"}
EvaluatedMessages == {"m"}
EvaluatedHistories == {<<>>, << <<"u", "a">> >>}
\* what the evaluation provider can answer to one request: a parsed verdict,
\* a response without a parsed object, an exception
RemoteEvalOutcomes == {NoneEval, RaiseEval, Eval(TRUE, "f1"), Eval(FALSE, "f1")}

\* get_evaluator_system_prompt of EvaluationService on what get_info gave:
\* the persona prompt filled with the profile, or the fallback when it raised
get_evaluator_system_prompt_from(info) ==
    IF info[1] = Raise THEN <<EvaluatorFallbackPrompt>>
    ELSE <<EvaluatorPersonaPrompt, info>>

\* PromptTemplates.get_evaluator_user_prompt
get_evaluator_user_prompt(r, message, history_messages) ==
    <<"Here's the conversation between the User and the Agent:",
      history_messages, message, r>>

\* mutation: only the first call of the service reaches the provider
create_evaluation_completion_first_only(out) ==
    IF ev_calls = <<>> /\ out.kind = "eval" THEN out ELSE NoneEval

\* gemini create_evaluation_completion with its default of MAX_RETRIES
\* attempts, against a provider that gives the same outcome to the same
\* prompts: a parsed verdict is returned by the first attempt; otherwise every
\* attempt fails alike and the call returns None
create_evaluation_completion(out) ==
    IF MAX_RETRIES > 0 /\ out.kind = "eval" THEN out ELSE NoneEval

EvaluateCall(r, message, history, e, sp, v) ==
    [reply |-> r, message |-> message, history |-> history, epoch |-> e,
     system_prompt |-> sp, verdict |-> v]

evaluate_frame ==
    UNCHANGED <<cfg, profile_ok, session_vars, chat_vars, log_vars,
                provider_vars, settings_calls, formatter_vars>>

\* EvaluationService.evaluate_response, whole: history conversion, evaluator
\* system prompt from get_info (which loads and caches the profile), user
\* prompt, provider call; the provider answers a prompt it has seen as before
call_evaluate_response ==
    /\ Len(ev_calls) < MaxEvaluations
    /\ \E r \in EvaluatedReplies, message \in EvaluatedMessages,
          history \in EvaluatedHistories :
          LET info == get_info(cached_profile, files)
              sp == get_evaluator_system_prompt_from(info.ret)
              up == get_evaluator_user_prompt(
                        r, message, gradio_history_to_openai_messages(history))
              prompts == <<sp, up>>
          IN  /\ cached_profile' = info.cache
              /\ loader_call' = LoaderCall("load_profile", TRUE, cached_profile,
                                           files,
                                           load_profile(cached_profile, files, TRUE))
              /\ \E out \in IF prompts \in DOMAIN ev_provider
                            THEN {ev_provider[prompts]}
                            ELSE RemoteEvalOutcomes :
                    /\ ev_provider' = (prompts :> out) @@ ev_provider
                    /\ ev_calls' =
                          Append(ev_calls,
                                 EvaluateCall(r, message, history, epoch, sp,
                                     evaluate_response(
                                         create_evaluation_completion(out))))
    /\ UNCHANGED <<files, epoch>>
    /\ evaluate_frame

\* between two calls somebody else replaces the profile files or clears the
\* profile cache
intervening_state_change ==
    /\ epoch < MaxStateChanges
    /\ epoch' = epoch + 1
    /\ \E f \in FileStates, clear \in BOOLEAN :
          /\ f # files \/ (clear /\ cached_profile # NoProfile)
          /\ files' = f
          /\ cached_profile' = IF clear THEN NoProfile ELSE cached_profile
    /\ UNCHANGED <<loader_call, ev_provider, ev_calls>>
    /\ evaluate_frame

\* evaluate_response alone, in every state of the profile files
EvaluateInit ==
    /\ services_init
    /\ cfg = [max_retries |-> 1, base_delay |-> 2, max_delay |-> 3,
              backoff_factor |-> 2]
    /\ profile_ok = TRUE
    /\ formatter_idle
    /\ files \in FileStates
    /\ loader_constructed
    /\ evaluate_idle

EvaluateNext ==
    \/ call_evaluate_response
    \/ intervening_state_change

SpecEvaluate == EvaluateInit /\ [][EvaluateNext]_vars

\* ---------------------------------------------------------------- properties
\* a verdict that is present and acceptable
Acceptable(v) == v.kind = "eval" /\ v.is_acceptable = TRUE
\* a verdict that is present and rejects
Rejecting(v) == v.kind = "eval" /\ v.is_acceptable = FALSE

\* a retry_with_evaluation session (MULTIPLE or PROGRESSIVE) exists
rwe_session ==
    /\ caller \in {"direct", "chat"}
    /\ rpc # "idle"
    /\ strategy \in {MULTIPLE, PROGRESSIVE}

\* a retry_best_of_n session exists
bon_session ==
    /\ caller = "direct"
    /\ rpc # "idle"
    /\ strategy = BEST_OF_N

\* evaluator calls made by the rounds of the session
RetryEvals == {i \in 1..Len(eval_calls) : eval_calls[i].by = "retry"}
\* evaluator calls made by find_best_response
FindBestEvals == {i \in 1..Len(eval_calls) : eval_calls[i].by = "find_best"}

MaxOf(S) == CHOOSE i \in S : \A j \in S : j <= i
MinOf(S) == CHOOSE i \in S : \A j \in S : i <= j

\* C1: in a retry_with_evaluation session with N = max_retries at most N
\* regenerations are made, and an acceptable verdict in round r ends the
\* session in round r: no later regeneration or evaluation, the result is
\* successful and carries that round's reply.
C1_StopsAtFirstAccepted ==
    rwe_session =>
        /\ Len(gen_calls) <= cfg.max_retries
        /\ \A i \in RetryEvals :
              Acceptable(eval_calls[i].verdict) =>
                  /\ i = Len(eval_calls)
                  /\ Len(gen_calls) = eval_calls[i].round
                  /\ rpc = "returned"
                  /\ result.was_successful = TRUE
                  /\ result.final_response = eval_calls[i].reply
                  /\ result.attempts_made = eval_calls[i].round

\* C1 witness: three rounds allowed, round 2 accepted after round 1 was rejected
C1_Witness ==
    /\ rwe_session /\ caller = "direct"
    /\ cfg.max_retries = 3
    /\ rpc = "returned" /\ result.was_successful
    /\ Len(gen_calls) = 2 /\ Len(eval_calls) = 2
    /\ Rejecting(eval_calls[1].verdict)

\* what process_chat_request returns given how the retry session ended
ChatDone == cpc = "done"
RetrySucceeded == caller = "chat" /\ rpc = "returned" /\ result.was_successful = TRUE
RetryFailed == caller = "chat" /\ rpc = "returned" /\ result.was_successful = FALSE
RetryRaised == caller = "chat" /\ rpc = "raised"

\* C2 (as stated): when generate_response returned None the returned
\* content is the apology string and the evaluator was never invoked.
C2_Original ==
    (ChatDone /\ response = None) =>
        /\ chat_response.content = Apology
        /\ eval_calls = <<>>

\* C2 (amended): when generate_response returned None the apology string is
\* the reply and the evaluator is invoked on it first; the returned content
\* is the apology string unless that evaluation rejected it and the retry
\* session then succeeded (its final reply) or raised (the error message).
C2_ApologyIsEvaluated ==
    (cpc \in {"retrying", "done"} /\ response = None) =>
        /\ Len(eval_calls) >= 1
        /\ eval_calls[1].by = "chat"
        /\ eval_calls[1].reply = Apology
        /\ ChatDone =>
              chat_response.content =
                  IF RetryRaised THEN ErrorMessage
                  ELSE IF RetrySucceeded THEN result.final_response
                  ELSE Apology

\* C2 witness: no generation result, the apology was evaluated and returned
C2_Witness ==
    /\ ChatDone /\ response = None
    /\ Len(eval_calls) = 1 /\ eval_calls[1].reply = Apology
    /\ chat_response.content = Apology

\* C3: when the initial reply was rejected and the retry session returned
\* an unsuccessful result, the content is the rejected reply itself and
\* was_retried is false.
C3_FailedRetryKeepsOriginal ==
    (ChatDone /\ Rejecting(chat_evaluation) /\ RetryFailed) =>
        /\ chat_response.content = eval_calls[1].reply
        /\ chat_response.content = retry_calls[1].original_reply
        /\ chat_response.was_retried = FALSE

\* C3 witness: the failed session did generate replies, none is returned
C3_Witness ==
    /\ ChatDone /\ Rejecting(chat_evaluation) /\ RetryFailed
    /\ Len(attempts) = 3
    /\ chat_response.content # Last(attempts)

\* C4: a rejected initial reply starts the retry engine exactly once, with
\* PROGRESSIVE, the rejected reply and the rejection feedback; when its
\* result is successful the content is the result's final reply and
\* was_retried is true.
C4_RejectedStartsProgressive ==
    (cpc \in {"retrying", "done"} /\ Rejecting(chat_evaluation)) =>
        /\ retry_calls = << [strategy |-> "progressive",
                             original_reply |-> eval_calls[1].reply,
                             feedback |-> eval_calls[1].verdict.feedback] >>
        /\ strategy = "progressive"
        /\ (ChatDone /\ RetrySucceeded) =>
              /\ chat_response.content = result.final_response
              /\ chat_response.was_retried = TRUE

\* C4 witness: max_retries = 2, round 1 rejected, round 2 accepted
C4_Witness ==
    /\ ChatDone /\ cfg.max_retries = 2
    /\ Len(eval_calls) = 3
    /\ Rejecting(eval_calls[1].verdict) /\ Rejecting(eval_calls[2].verdict)
    /\ Acceptable(eval_calls[3].verdict)
    /\ result.attempts_made = 2
    /\ chat_response.content = attempts[3]
    /\ chat_response.was_retried

\* C5 (as stated): when the generation provider yields a text for the
\* request and the initial verdict is acceptable or absent, that text is
\* returned with was_retried false and the retry engine is not invoked.
C5_GeneratedReplyReturned ==
    (ChatDone /\ gen_outcome \in Texts /\ ~Rejecting(chat_evaluation)) =>
        /\ chat_response.content = gen_outcome
        /\ chat_response.was_retried = FALSE
        /\ retry_calls = <<>>

\* C6: an exception that reaches the try block of process_chat_request
\* ends the call with the fixed error message, no evaluation and
\* was_retried false; the call still returns a response.
C6_ExceptionGivesErrorMessage ==
    /\ (ChatDone /\ RetryRaised) =>
          chat_response = [content |-> ErrorMessage, evaluation |-> NoneEval,
                           was_retried |-> FALSE]
    /\ (caller = "chat" /\ rpc = "raised") => cpc \in {"retrying", "done"}
    /\ ChatDone => chat_response # NoChatResponse

\* C6 witness: time.sleep raised inside the retry session after a reply of
\* the session had been rejected
C6_Witness ==
    /\ ChatDone /\ RetryRaised
    /\ Len(attempts) = 2 /\ Len(eval_calls) = 2
    /\ chat_response.content = ErrorMessage

\* C7: the content returned by process_chat_request is never empty or
\* absent: it is a generated reply or one of the two fixed strings.
C7_ContentNonEmpty ==
    ChatDone =>
        /\ chat_response.content \notin {None, "", Raise}
        /\ chat_response.content \in Texts \cup {Apology, ErrorMessage}

\* C7 witness: persona loading fails, the provider and the evaluator fail
\* in the session, and a generated reply is still returned
C7_Witness ==
    /\ ChatDone /\ ~profile_ok
    /\ chat_response.content \in Texts
    /\ Len(gen_calls) = 3 /\ Len(attempts) = 3
    /\ \E i \in RetryEvals : eval_calls[i].verdict.kind = "none"

\* C8 (as stated): in retry_best_of_n, when at least one candidate was
\* generated and no candidate has an acceptable verdict, the result is
\* unsuccessful and its final_response is the first generated candidate.
C8_AllRejectedReturnsFirst ==
    (bon_session /\ rpc = "returned" /\ Len(attempts) > 1
        /\ \A i \in FindBestEvals : ~Acceptable(eval_calls[i].verdict)) =>
        /\ result.was_successful = FALSE
        /\ result.final_response = attempts[2]

\* C9: in retry_best_of_n with an acceptable candidate the result is
\* successful and its final_response is the acceptable candidate generated
\* first; find_best_response returns the first reply of its input whose
\* verdict is acceptable, with that verdict.
C9_FirstAcceptableWins ==
    LET acc == {i \in FindBestEvals : Acceptable(eval_calls[i].verdict)}
        first == MinOf(acc) IN
    /\ (rpc \in {"fbr_returned", "returned"} /\ caller \in {"direct", "find_best_response"}
           /\ acc # {}) =>
          /\ best.response = responses[eval_calls[first].round]
          /\ best.response = eval_calls[first].reply
          /\ best.evaluation = eval_calls[first].verdict
    /\ (bon_session /\ rpc = "returned" /\ acc # {}) =>
          /\ result.was_successful = TRUE
          /\ result.final_response = attempts[eval_calls[first].round + 1]
          /\ result.final_evaluation = eval_calls[first].verdict

\* C9 witness: three distinct-position candidates, #1 rejected, #2 and #3
\* acceptable, #2 (which differs from #3) is the final response
C9_Witness ==
    /\ bon_session /\ rpc = "returned"
    /\ Len(attempts) = 4 /\ Len(eval_calls) = 3
    /\ ~Acceptable(eval_calls[1].verdict)
    /\ Acceptable(eval_calls[2].verdict) /\ Acceptable(eval_calls[3].verdict)
    /\ attempts[3] # attempts[4]
    /\ result.final_response = attempts[3]

\* the reply the k-th regeneration of a retry_with_evaluation session is
\* expected to start from: the reply generated last before round k
ExpectedReply(k) ==
    LET prev == {i \in RetryEvals : eval_calls[i].round < k} IN
    IF prev = {} THEN retry_calls[1].original_reply
    ELSE eval_calls[MaxOf(prev)].reply

\* the feedback expected in round k when every verdict replaces it
FeedbackOfLastVerdict(k) ==
    LET prev == {i \in RetryEvals :
                    eval_calls[i].round < k /\ eval_calls[i].verdict.kind = "eval"} IN
    IF prev = {} THEN retry_calls[1].feedback
    ELSE eval_calls[MaxOf(prev)].verdict.feedback

\* the feedback expected in round k when only a verdict with a non-empty
\* feedback text replaces it
FeedbackOfLastNonEmptyVerdict(k) ==
    LET prev == {i \in RetryEvals :
                    /\ eval_calls[i].round < k
                    /\ eval_calls[i].verdict.kind = "eval"
                    /\ eval_calls[i].verdict.feedback # ""} IN
    IF prev = {} THEN retry_calls[1].feedback
    ELSE eval_calls[MaxOf(prev)].verdict.feedback

NoResponseRound ==
    /\ rwe_session /\ rpc = "rwe_generate"
    /\ gen_calls' # gen_calls
    /\ attempts' = attempts

\* C11: a round of retry_with_evaluation whose regeneration produces no
\* response makes no evaluation, uses up its round, leaves the current
\* feedback and the most recent reply as they were and does not end the
\* session early: the next round (if one remains) regenerates from the same
\* reply and the same feedback.
C11_NoResponseRoundSkipsEvaluation ==
    /\ [][NoResponseRound =>
            /\ Len(gen_calls') = Len(gen_calls) + 1
            /\ eval_calls' = eval_calls
            /\ current_feedback' = current_feedback
            /\ evaluation' = evaluation
            /\ result' = result
            /\ IF attempt < cfg.max_retries
               THEN rpc' = "rwe_generate" /\ attempt' = attempt + 1
               ELSE rpc' = "rwe_exhausted"]_vars
    /\ [](rwe_session =>
            \A k \in 1..(Len(gen_calls) - 1) :
                (\A i \in RetryEvals : eval_calls[i].round # k) =>
                    /\ gen_calls[k + 1].original_reply = gen_calls[k].original_reply
                    /\ gen_calls[k + 1].feedback = gen_calls[k].feedback
                    /\ gen_calls[k + 1].round = k + 1)

\* C11 witness: round 1 rejected with feedback "f1", round 2 without a
\* response, round 3 starts from reply 1 and "f1" again
C11_Witness ==
    /\ rwe_session /\ caller = "direct"
    /\ Len(gen_calls) = 3 /\ Len(attempts) = 2 /\ Len(eval_calls) = 1
    /\ eval_calls[1].verdict = Eval(FALSE, "f1")
    /\ gen_calls[2].original_reply = attempts[2] /\ gen_calls[2].feedback = "f1"
    /\ gen_calls[3].original_reply = attempts[2] /\ gen_calls[3].feedback = "f1"

\* an evaluation step of retry_with_evaluation that gave no verdict
NoVerdictRound ==
    /\ rwe_session /\ rpc = "rwe_evaluate"
    /\ Len(eval_calls') = Len(eval_calls) + 1
    /\ eval_calls'[Len(eval_calls')].verdict.kind = "none"

\* the step after a round without verdict, the delay being one time.sleep
\* accepts
AfterNoVerdictRound ==
    /\ rwe_session /\ rpc = "rwe_backoff" /\ rpc' # rpc
    /\ RetryEvals # {}
    /\ eval_calls[MaxOf(RetryEvals)].verdict.kind = "none"
    /\ eval_calls[MaxOf(RetryEvals)].round = attempt
    /\ cfg.base_delay >= 0

\* C12: a round of retry_with_evaluation whose evaluation returns None
\* does not end the session as accepted and leaves the current feedback
\* unchanged; the loop then goes on to the next round when one remains
\* (and to the exhausted result when none does).
C12_NoVerdictRoundContinues ==
    /\ [][NoVerdictRound =>
            /\ rpc' = "rwe_backoff"
            /\ result' = result
            /\ current_feedback' = current_feedback
            /\ attempts' = attempts]_vars
    /\ [][AfterNoVerdictRound =>
            /\ current_feedback' = current_feedback
            /\ IF attempt < cfg.max_retries
               THEN rpc' = "rwe_generate" /\ attempt' = attempt + 1
               ELSE rpc' = "rwe_exhausted"]_vars
    /\ [](rwe_session =>
            \A i \in RetryEvals :
                (eval_calls[i].verdict.kind = "none"
                    /\ Len(gen_calls) > eval_calls[i].round) =>
                    /\ gen_calls[eval_calls[i].round + 1].feedback
                          = gen_calls[eval_calls[i].round].feedback
                    /\ gen_calls[eval_calls[i].round + 1].original_reply
                          = eval_calls[i].reply)

\* C12 witness: round 1 got no verdict, round 2 was run with the initial
\* feedback and round 1's reply
C12_Witness ==
    /\ rwe_session /\ caller = "direct"
    /\ Len(gen_calls) = 2 /\ Len(eval_calls) >= 1
    /\ eval_calls[1].verdict.kind = "none"
    /\ gen_calls[2].feedback = "f0"
    /\ gen_calls[2].original_reply = attempts[2]

\* retry_with_evaluation returned and no round's verdict was acceptable
Exhausted ==
    /\ rwe_session /\ rpc = "returned"
    /\ \A i \in RetryEvals : ~Acceptable(eval_calls[i].verdict)

\* C13: when retry_with_evaluation has run its max_retries rounds without
\* an acceptance, the result is unsuccessful and its final_response is the
\* last reply generated in the session, with or without a verdict, or the
\* original rejected reply when no round generated one.
C13_ExhaustedReturnsLastGenerated ==
    Exhausted =>
        /\ Len(gen_calls) = cfg.max_retries
        /\ result.was_successful = FALSE
        /\ result.attempts_made = cfg.max_retries
        /\ result.final_response =
              IF RetryEvals = {} THEN retry_calls[1].original_reply
              ELSE eval_calls[MaxOf(RetryEvals)].reply
        /\ result.all_attempts[1] = retry_calls[1].original_reply
        /\ Len(result.all_attempts) = Cardinality(RetryEvals) + 1

\* C13 witness: three rounds, the first rejected, the second without a
\* verdict, the third without a reply; the second round's reply is returned
C13_Witness ==
    /\ Exhausted /\ caller = "direct"
    /\ cfg.max_retries = 3
    /\ Len(eval_calls) = 2
    /\ Rejecting(eval_calls[1].verdict)
    /\ eval_calls[2].verdict.kind = "none"
    /\ eval_calls[2].reply # eval_calls[1].reply
    /\ result.final_response = eval_calls[2].reply

\* the delay the configuration prescribes after round r
BackoffDelay(r) ==
    LET raw == cfg.base_delay * Pow(cfg.backoff_factor, r - 1) IN
    IF raw < cfg.max_delay THEN raw ELSE cfg.max_delay

\* C14: in retry_with_evaluation every round r < max_retries that does not
\* end in acceptance, a round without a response included, is followed by
\* a sleep of min(base_delay * backoff_factor^(r-1), max_delay) before
\* round r+1; there is no sleep after the final round or after an accepted
\* round.
C14_SleepsBetweenAllRounds ==
    rwe_session =>
        /\ \A r \in 1..(Len(gen_calls) - 1) :
              \E j \in 1..Len(sleeps) :
                  sleeps[j].round = r /\ sleeps[j].delay = BackoffDelay(r)
        /\ \A j \in 1..Len(sleeps) :
              /\ sleeps[j].round < cfg.max_retries
              /\ \A i \in RetryEvals :
                    eval_calls[i].round = sleeps[j].round =>
                        ~Acceptable(eval_calls[i].verdict)

\* a SINGLE session of retry_with_strategy exists
single_session ==
    /\ caller = "direct" /\ rpc # "idle" /\ strategy = SINGLE

\* C15: retry_with_strategy with SINGLE makes exactly one regeneration call
\* and at most one evaluation, ends after that one round whatever its
\* outcome, and is successful exactly when a verdict exists and is
\* acceptable; without a regenerated reply the final response is the
\* original reply.
C15_SingleOneRound ==
    single_session =>
        /\ rpc \in {"single_generate", "single_evaluate", "returned"}
        /\ Len(gen_calls) <= 1 /\ Len(eval_calls) <= 1
        /\ sleeps = <<>>
        /\ rpc = "single_evaluate" => Len(gen_calls) = 1 /\ eval_calls = <<>>
        /\ rpc = "returned" =>
              /\ Len(gen_calls) = 1
              /\ result.attempts_made = 1
              /\ result.was_successful =
                    (Len(eval_calls) = 1 /\ Acceptable(eval_calls[1].verdict))
              /\ eval_calls = <<>> =>
                    /\ result.final_response = retry_calls[1].original_reply
                    /\ result.all_attempts = <<retry_calls[1].original_reply>>
              /\ Len(eval_calls) = 1 =>
                    /\ result.final_response = eval_calls[1].reply
                    /\ result.final_evaluation = eval_calls[1].verdict

\* C15 witness: the one regenerated reply got no verdict and the session
\* ended unsuccessful with that reply
C15_Witness ==
    /\ single_session /\ rpc = "returned"
    /\ Len(eval_calls) = 1 /\ eval_calls[1].verdict.kind = "none"
    /\ result.was_successful = FALSE
    /\ result.final_response = "a"

\* C16: in the SINGLE strategy every regeneration is given the initial
\* rejection feedback passed at entry, and once the regenerated reply has
\* been evaluated no further regeneration is made, so that evaluation's
\* feedback never builds a prompt.
C16_SingleUsesInitialFeedbackOnly ==
    /\ [](single_session =>
            \A k \in 1..Len(gen_calls) :
                /\ gen_calls[k].feedback = retry_calls[1].feedback
                /\ gen_calls[k].original_reply = retry_calls[1].original_reply)
    /\ [][(single_session /\ eval_calls # <<>>) =>
            gen_calls' = gen_calls]_vars

\* C16 witness: the regenerated reply was rejected with feedback "f2" and
\* the only regeneration was the one made with the initial feedback "f0"
C16_Witness ==
    /\ single_session /\ rpc = "returned"
    /\ Len(eval_calls) = 1 /\ eval_calls[1].verdict = Eval(FALSE, "f2")
    /\ Len(gen_calls) = 1 /\ gen_calls[1].feedback = "f0"
    /\ retry_calls[1].feedback = "f0"

\* C17: in retry_best_of_n each of the n_attempts regeneration calls is
\* made with the original rejected reply and the original feedback,
\* whatever the earlier candidates were; all of them are made before any
\* candidate is evaluated.
C17_BestOfNIndependentCandidates ==
    /\ [](bon_session =>
            /\ original_reply \in OriginalReplies
            /\ feedback \in InitialFeedbacks
            /\ Len(gen_calls) <= n_attempts
            /\ rpc # "bon_generate" => Len(gen_calls) = n_attempts
            /\ eval_calls # <<>> => Len(gen_calls) = n_attempts
            /\ \A k \in 1..Len(gen_calls) :
                  /\ gen_calls[k].original_reply = original_reply
                  /\ gen_calls[k].feedback = feedback
                  /\ gen_calls[k].round = k)
    /\ [][bon_session =>
            original_reply' = original_reply /\ feedback' = feedback]_vars

\* C17 witness: three candidates were generated, the later ones after
\* earlier ones had produced different text
C17_Witness ==
    /\ bon_session /\ n_attempts = 3
    /\ Len(gen_calls) = 3
    /\ attempts = <<"o", "a", "b", "a">>
    /\ gen_calls[3].original_reply = "o" /\ gen_calls[3].feedback = "f0"

\* retry_best_of_n returned and none of its regenerations gave a response
NoCandidate ==
    /\ bon_session /\ rpc = "returned"
    /\ attempts = <<original_reply>>

\* C18: when all n_attempts regenerations of retry_best_of_n produce no
\* response, the evaluator is not invoked and the result is unsuccessful,
\* carries the original reply, attempts_made = 0 and no final evaluation.
C18_NoCandidateFailsAtOnce ==
    NoCandidate =>
        /\ Len(gen_calls) = n_attempts
        /\ eval_calls = <<>>
        /\ result.was_successful = FALSE
        /\ result.final_response = original_reply
        /\ result.attempts_made = 0
        /\ result.final_evaluation = NoneEval
        /\ result.all_attempts = <<original_reply>>

\* C18 witness: three regenerations, none with a response
C18_Witness ==
    /\ NoCandidate
    /\ n_attempts = 3 /\ Len(gen_calls) = 3
    /\ result.final_response = "o"

\* a chat completion of either client has returned, max_retries positive
ChatCompletionReturned ==
    /\ pclient \in {"openai", "gemini_chat"}
    /\ ppc = "returned" /\ pmax > 0

\* C19: with a positive max_retries, create_chat_completion returns either
\* non-empty text or None after exactly max_retries remote attempts; an
\* empty or absent content is never returned after fewer attempts.
C19_TextOrNoneAfterAllAttempts ==
    ChatCompletionReturned =>
        \/ pret \in Texts
        \/ pret = None /\ Len(premote) = pmax

\* remote call k of the running client call raised
Raised(k) == premote[k].content = Raise \/ premote[k].parsed.kind = "raise"

\* C20: in the provider retry loops an attempt with 0-based index i that
\* raised and is not the last one is followed by one wait of 2^i before
\* attempt i+1; there is no wait after the final attempt and none after an
\* attempt that did not raise.
C20_WaitsTwoToTheAttempt ==
    pclient # "none" =>
        /\ \A k \in 1..Len(premote) : premote[k].index = k - 1
        /\ \A k \in 1..Len(premote) :
              (Raised(k) /\ k - 1 < pmax - 1) =>
                  /\ Cardinality({j \in 1..Len(pwaits) : pwaits[j].after = k - 1}) = 1
                  /\ ppc = "attempt" \/ Len(premote) > k
        /\ \A j \in 1..Len(pwaits) :
              /\ pwaits[j].time = Pow(2, pwaits[j].after)
              /\ pwaits[j].after < pmax - 1
              /\ pwaits[j].after + 1 <= Len(premote)
              /\ Raised(pwaits[j].after + 1)
        /\ \A i, j \in 1..Len(pwaits) : i < j => pwaits[i].after < pwaits[j].after

\* C20 witness: three attempts that all raised, with waits of 1 and 2 after
\* the first two and none after the last
C20_Witness ==
    /\ pclient = "gemini_eval" /\ ppc = "returned" /\ pmax = 3
    /\ Len(premote) = 3 /\ \A k \in 1..3 : Raised(k)
    /\ pwaits = <<Wait(0, 1), Wait(1, 2)>>

\* create_evaluation_completion has returned, max_retries positive
EvalCompletionReturned ==
    /\ pclient = "gemini_eval" /\ ppc = "returned" /\ pmax > 0

\* the remote calls of the running client call that gave a parsed object
ParsedAttempts == {k \in 1..Len(premote) : premote[k].parsed.kind = "eval"}

\* C21: create_evaluation_completion returns the parsed verdict of the
\* first attempt that yields a parsed object and makes no further attempt;
\* when none of its max_retries attempts yields one, by exception or by an
\* unparsed response, it returns None, not a rejecting verdict and not an
\* exception. evaluate_response hands a verdict on unchanged and maps None
\* and any exception to None.
C21_ParsedVerdictOrNone ==
    /\ EvalCompletionReturned =>
          /\ ParsedAttempts # {} =>
                /\ pret_eval = premote[MinOf(ParsedAttempts)].parsed
                /\ Len(premote) = MinOf(ParsedAttempts)
          /\ ParsedAttempts = {} =>
                /\ pret_eval = NoneEval
                /\ Len(premote) = pmax
          /\ evaluate_response(pret_eval) = pret_eval
    /\ \A out \in EvaluatorOutcomes :
          evaluate_response(out) =
              IF out.kind = "eval" THEN out ELSE NoneEval

\* C21 witness: three attempts, one raised, one unparsed, one raised, and
\* None was returned
C21_Witness ==
    /\ EvalCompletionReturned /\ pmax = 3
    /\ Len(premote) = 3
    /\ premote[1].parsed.kind = "raise"
    /\ premote[2].parsed.kind = "none"
    /\ premote[3].parsed.kind = "raise"
    /\ pret_eval = NoneEval

\* find_best_response has returned from a non-empty list
SelectionMade ==
    /\ rpc \in {"fbr_returned", "returned"}
    /\ caller \in {"direct", "find_best_response"}
    /\ FindBestEvals # {}

EmptySelection ==
    /\ caller = "find_best_response" /\ rpc # "idle"
    /\ responses = <<>>

\* C23: find_best_response on an empty candidate list returns (None, None)
\* at once and does not invoke the evaluator.
C23_EmptyListGivesNone ==
    EmptySelection =>
        /\ rpc = "fbr_returned"
        /\ best.response = None
        /\ best.evaluation = NoneEval
        /\ eval_calls = <<>> /\ evaluations = <<>>

\* C23 witness: the call on the empty list has returned
C23_Witness ==
    /\ EmptySelection /\ rpc = "fbr_returned"
    /\ best = Best(None, NoneEval) /\ eval_calls = <<>>

\* evaluate_multiple_responses is running or has returned
EvaluatingMany ==
    \/ rpc \in {"fbr_evaluate", "fbr_returned"}
    \/ bon_session /\ rpc = "returned" /\ Len(attempts) > 1

\* C24: evaluate_multiple_responses calls the evaluator on the replies one
\* at a time in input order, each exactly once, and returns a sequence of
\* the input's length whose element i is the verdict, or None, of reply i;
\* a failed evaluation takes its own position and later entries keep theirs.
C24_EvaluationsInInputOrder ==
    /\ [](EvaluatingMany =>
            /\ Len(eval_calls) = Len(evaluations)
            /\ Len(evaluations) <= Len(responses)
            /\ rpc # "fbr_evaluate" => Len(evaluations) = Len(responses)
            /\ \A k \in 1..Len(eval_calls) :
                  /\ eval_calls[k].by = "find_best"
                  /\ eval_calls[k].round = k
                  /\ eval_calls[k].reply = responses[k]
                  /\ evaluations[k] = eval_calls[k].verdict
                  /\ evaluations[k].kind \in {"eval", "none"})
    /\ [][EvaluatingMany =>
            /\ responses' = responses
            /\ \/ evaluations' = evaluations
               \/ /\ Len(evaluations') = Len(evaluations) + 1
                  /\ \A k \in 1..Len(evaluations) :
                        evaluations'[k] = evaluations[k]]_vars

\* C24 witness: three replies, the second evaluation failed, the first and
\* the third verdicts differ and sit at their own positions
C24_Witness ==
    /\ caller = "find_best_response" /\ rpc = "fbr_returned"
    /\ Len(responses) = 3 /\ Len(evaluations) = 3
    /\ evaluations[1] = Eval(FALSE, "f1")
    /\ evaluations[2] = NoneEval
    /\ evaluations[3] = Eval(FALSE, "f2")

\* the program runs on one thread and every call it makes returns, so a
\* step that can be taken is taken
SpecLive == Init /\ [][Next]_vars /\ WF_vars(Next)

\* retry_with_strategy has started a session
StrategySession == retry_calls # <<>> /\ rpc # "idle"
\* the session has produced its RetryResult
Terminal == rpc = "returned"

\* C25: every session started by retry_with_strategy, whatever the
\* strategy, with delays time.sleep accepts, eventually reaches one terminal
\* state, ACCEPTED (was_successful true) or EXHAUSTED (was_successful
\* false), with one RetryResult, produced at that moment and never
\* replaced; the session never leaves the terminal state.
C25_SessionTerminatesOnce ==
    /\ (StrategySession /\ cfg.base_delay >= 0) ~> (StrategySession /\ Terminal)
    /\ [](StrategySession =>
            /\ ~Terminal => result = NoResult
            /\ Terminal =>
                  /\ result # NoResult
                  /\ result.was_successful \in BOOLEAN
                  /\ Len(result.all_attempts) >= 1)
    /\ [][(StrategySession /\ Terminal) =>
            /\ rpc' = rpc /\ result' = result
            /\ attempts' = attempts
            /\ gen_calls' = gen_calls /\ eval_calls' = eval_calls
            /\ sleeps' = sleeps /\ retry_calls' = retry_calls]_vars

\* C25 witness: a progressive session that ran all its three rounds, slept
\* twice and ended EXHAUSTED
C25_Witness ==
    /\ StrategySession /\ Terminal /\ caller = "direct"
    /\ strategy = PROGRESSIVE /\ cfg.max_retries = 3
    /\ Len(gen_calls) = 3 /\ Len(sleeps) = 2
    /\ result.was_successful = FALSE

\* the configuration the running session started with
StartCfg == IF settings_calls = <<>> THEN cfg ELSE settings_calls[1].before

\* the delay the session's starting configuration prescribes after round r
StartBackoffDelay(r) ==
    LET raw == StartCfg.base_delay * Pow(StartCfg.backoff_factor, r - 1) IN
    IF raw < StartCfg.max_delay THEN raw ELSE StartCfg.max_delay

\* C26: an update_settings call made while a retry_with_evaluation session
\* is in flight does not affect that session: its number of rounds, its
\* sleeps between rounds and the attempts_made it reports are those of the
\* configuration it started with.
C26_InFlightSessionIsolated ==
    (rwe_session /\ rpc = "returned") =>
        /\ Exhausted =>
              /\ Len(gen_calls) = StartCfg.max_retries
              /\ result.attempts_made = StartCfg.max_retries
        /\ \A j \in 1..Len(sleeps) :
              /\ sleeps[j].round < StartCfg.max_retries
              /\ sleeps[j].delay = StartBackoffDelay(sleeps[j].round)
        /\ \A i \in RetryEvals :
              (~Acceptable(eval_calls[i].verdict)
                  /\ eval_calls[i].round < StartCfg.max_retries) =>
                  \E j \in 1..Len(sleeps) : sleeps[j].round = eval_calls[i].round

\* a retry_with_evaluation or retry_best_of_n session exists
trace_session == rwe_session \/ bon_session

\* C27 (as stated): the attempt trace starts with the original rejected
\* reply and has one record more than the number of rounds run.
C27_Original ==
    trace_session =>
        /\ attempts[1] = original_reply
        /\ Len(attempts) = Len(gen_calls) + 1

\* C27 (amended): the attempt trace of a retry session starts with the
\* original rejected reply, grows by exactly one record in each round that
\* generates a reply and by none in a round without a response (so after k
\* rounds it has at most k+1 records), never shrinks or reorders its
\* records, and is the all_attempts of the result.
C27_TraceGrowsPerGeneratedReply ==
    /\ [](trace_session =>
            /\ Truthy(original_reply)
            /\ attempts[1] = original_reply
            /\ Len(attempts) <= Len(gen_calls) + 1
            /\ \A k \in 2..Len(attempts) : Truthy(attempts[k])
            /\ rpc = "returned" => result.all_attempts = attempts)
    /\ [][trace_session =>
            /\ original_reply' = original_reply
            /\ Len(attempts') >= Len(attempts)
            /\ \A k \in 1..Len(attempts) : attempts'[k] = attempts[k]
            /\ gen_calls' = gen_calls => attempts' = attempts
            /\ gen_calls' # gen_calls =>
                  /\ Len(gen_calls') = Len(gen_calls) + 1
                  /\ Len(attempts') <= Len(attempts) + 1]_vars

\* C27 witness: three rounds, the second without a response: the trace has
\* the original and the two generated replies
C27_Witness ==
    /\ rwe_session /\ rpc = "returned" /\ caller = "direct"
    /\ Len(gen_calls) = 3
    /\ Len(eval_calls) = 2
    /\ eval_calls[1].round = 1 /\ eval_calls[2].round = 3
    /\ result.all_attempts = <<"o", "a", "b">>

\* retry_with_strategy was called with MULTIPLE or PROGRESSIVE
LoopSession ==
    /\ caller = "direct" /\ rpc # "idle"
    /\ retry_calls # <<>>
    /\ retry_calls[1].strategy \in {MULTIPLE, PROGRESSIVE}

\* the result a loop session owes to its inputs, its configuration and the
\* outcomes of its calls; the strategy does not enter
ExpectedLoopResult ==
    LET acc == {i \in RetryEvals : Acceptable(eval_calls[i].verdict)}
        trace == <<retry_calls[1].original_reply>>
                    \o [k \in 1..Len(eval_calls) |-> eval_calls[k].reply] IN
    IF acc # {}
    THEN RetryResult(eval_calls[MinOf(acc)].reply, TRUE,
                     eval_calls[MinOf(acc)].round,
                     eval_calls[MinOf(acc)].verdict, trace)
    ELSE IF RetryEvals # {}
    THEN RetryResult(eval_calls[MaxOf(RetryEvals)].reply, FALSE,
                     cfg.max_retries,
                     eval_calls[MaxOf(RetryEvals)].verdict, trace)
    ELSE RetryResult(retry_calls[1].original_reply, FALSE, cfg.max_retries,
                     NoneEval, trace)

PersonaLoadFails == profile_ok = FALSE

\* C29: when loading the persona fails, get_system_prompt of ChatService
\* and of RetryService and get_evaluator_system_prompt return their fixed,
\* non-empty fallback prompts instead of raising, and the turn goes on:
\* generation, evaluation and regeneration are each run with the fallback
\* prompt.
C29_PromptFallbackKeepsTurnGoing ==
    PersonaLoadFails =>
        /\ FallbackSystemPrompt # "" /\ EvaluatorFallbackPrompt # ""
        /\ cpc \notin {"idle", "generate"} =>
              /\ system_prompt = FallbackSystemPrompt
              /\ system_prompt = "You are a helpful AI assistant."
        /\ \A k \in 1..Len(gen_calls) :
              gen_calls[k].system_prompt = "You are a helpful AI assistant."
        /\ \A i \in 1..Len(eval_calls) :
              eval_calls[i].system_prompt = EvaluatorFallbackPrompt
        /\ cpc \in {"retrying", "done"} =>
              /\ eval_calls # <<>>
              /\ eval_calls[1].by = "chat"
        /\ (cpc = "done" /\ Rejecting(chat_evaluation) /\ rpc = "returned") =>
              gen_calls # <<>>

\* C29 witness: the persona failed to load and the turn still ran its
\* generation, its evaluation, a regeneration and the evaluation that
\* accepted the regenerated reply
C29_Witness ==
    /\ PersonaLoadFails /\ cpc = "done"
    /\ was_retried = TRUE
    /\ gen_calls # <<>>
    /\ gen_calls[1].system_prompt = FallbackSystemPrompt
    /\ Len(eval_calls) >= 2
    /\ eval_calls[2].system_prompt = EvaluatorFallbackPrompt

\* C30: update_settings sets exactly the fields whose argument is not None
\* to the given values and leaves the other fields of {max_retries,
\* base_delay, max_delay, backoff_factor} unchanged; updating one field to
\* a value and then back to its previous value restores the whole
\* configuration.
C30_UpdateSetsGivenFieldsOnly ==
    /\ \A i \in 1..Len(settings_calls) :
          /\ \A f \in Fields :
                settings_calls[i].after[f] =
                    IF f \in DOMAIN settings_calls[i].kwargs
                    THEN settings_calls[i].kwargs[f]
                    ELSE settings_calls[i].before[f]
          /\ DOMAIN settings_calls[i].after = Fields
          /\ i > 1 => settings_calls[i].before = settings_calls[i - 1].after
    /\ settings_calls # <<>> => cfg = settings_calls[Len(settings_calls)].after
    /\ \A f \in Fields :
          (/\ Len(settings_calls) = 2
           /\ DOMAIN settings_calls[1].kwargs = {f}
           /\ DOMAIN settings_calls[2].kwargs = {f}
           /\ settings_calls[2].kwargs[f] = settings_calls[1].before[f]) =>
              cfg = settings_calls[1].before

\* C30 witness: max_retries was raised from 1 to 3 and set back to 1, with
\* a base_delay the first call did not name
C30_Witness ==
    /\ Len(settings_calls) = 2
    /\ DOMAIN settings_calls[1].kwargs = {"max_retries"}
    /\ DOMAIN settings_calls[2].kwargs = {"max_retries"}
    /\ settings_calls[1].before.max_retries = 1
    /\ settings_calls[1].after.max_retries = 3
    /\ settings_calls[1].after.base_delay = -1
    /\ cfg = settings_calls[1].before

\* C31: the formatter round trip: extracting from the conversation that
\* build_chat_messages built gives back the current message and the history
\* pairs that went in
C31_RoundTrip ==
    (fm_pc = "extracted" /\ fm_builder = "chat") =>
        fm_extracted = <<fm_message, fm_history>>

\* a history pair with an empty assistant entry is lost on the way back
C31_Counterexample ==
    ~ (/\ fm_pc = "extracted" /\ fm_builder = "chat"
       /\ fm_history = << <<"u", "">> >>
       /\ fm_message = "m"
       /\ fm_extracted = <<"m", <<>> >>)

\* C32: a built conversation is one system message followed by strictly
\* alternating user and assistant turns that end with the current user message
C32_Alternating ==
    fm_pc = "built" =>
        /\ fm_messages[1].role = "system"
        /\ \A i \in 2..Len(fm_messages) : fm_messages[i].role # "system"
        /\ \A i \in 1..(Len(fm_messages) - 1) :
              fm_messages[i].role # fm_messages[i + 1].role
        /\ Last(fm_messages) = Message("user", fm_message)

\* a history pair with an empty assistant entry puts two user messages in a row
C32_Counterexample ==
    ~ (/\ fm_pc = "built" /\ fm_builder = "retry"
       /\ fm_history = << <<"u", "">> >>
       /\ Len(fm_messages) = 3
       /\ fm_messages[2].role = "user" /\ fm_messages[3].role = "user")

\* the files of a loader call could not all be read
ReadFails(c) == c.files.summary = Unreadable \/ c.files.linkedin = Unreadable

\* C39: the profile cache under failure: a load with the cache in use and a
\* profile cached returns that profile and reads no file; a refresh whose
\* reading fails leaves the cache empty; a load without the cache whose
\* reading fails leaves the cache as it was; clear_cache leaves it empty
C39_CacheUnderFailure ==
    /\ (/\ loader_call.op = "load_profile" /\ loader_call.use_cache
        /\ loader_call.before # NoProfile) =>
            /\ loader_call.ret = loader_call.before
            /\ loader_call.reads = <<>>
            /\ loader_call.after = loader_call.before
    /\ (loader_call.op = "refresh_profile" /\ ReadFails(loader_call)) =>
            /\ loader_call.ret = FileReadError
            /\ loader_call.after = NoProfile
    /\ (/\ loader_call.op = "load_profile" /\ ~ loader_call.use_cache
        /\ ReadFails(loader_call)) =>
            /\ loader_call.ret = FileReadError
            /\ loader_call.after = loader_call.before
    /\ loader_call.op = "clear_cache" => loader_call.after = NoProfile
    /\ (loader_call.op # "none" /\ loader_call.after = NoProfile) =>
            ~ is_profile_loaded(cached_profile)
    /\ (loader_call.op # "none" /\ loader_call.after # NoProfile) =>
            is_profile_loaded(cached_profile)

\* a refresh fails on the LinkedIn file and loses the profile cached before
C39_Witness ==
    /\ loader_call.op = "refresh_profile"
    /\ loader_call.before # NoProfile
    /\ loader_call.files.summary # Unreadable
    /\ loader_call.files.linkedin = Unreadable
    /\ loader_call.ret = FileReadError
    /\ cached_profile = NoProfile

\* C33: two evaluate_response calls with the same reply, message and history,
\* with no change of files or cache by others in between and a provider that
\* answers the same prompts alike, return the same verdict
C33_EvaluationDeterministic ==
    \A i, j \in 1..Len(ev_calls) :
        (/\ ev_calls[i].reply = ev_calls[j].reply
         /\ ev_calls[i].message = ev_calls[j].message
         /\ ev_calls[i].history = ev_calls[j].history
         /\ ev_calls[i].epoch = ev_calls[j].epoch) =>
            ev_calls[i].verdict = ev_calls[j].verdict

\* C33 witness: the same evaluation was asked twice with nothing changed in
\* between, the first call loaded the profile, and both got the same rejection
C33_Witness ==
    /\ Len(ev_calls) = 2
    /\ ev_calls[1].reply = ev_calls[2].reply
    /\ ev_calls[1].history = ev_calls[2].history
    /\ ev_calls[1].epoch = ev_calls[2].epoch
    /\ ev_calls[1].system_prompt # <<EvaluatorFallbackPrompt>>
    /\ Rejecting(ev_calls[1].verdict)
    /\ ev_calls[2].verdict = ev_calls[1].verdict

\* the verdict process_chat_request got for its initial reply
InitialVerdict == eval_calls[1].verdict
\* the retry session of the request accepted the reply returned
AcceptedInSession(c) ==
    \E i \in RetryEvals : Acceptable(eval_calls[i].verdict) /\ eval_calls[i].reply = c

\* C34: when process_chat_request returns was_retried true, its retry
\* session ended successful and the content is that session's final reply,
\* which the evaluator accepted in that session; was_retried is never true
\* when the initial reply was accepted or got no verdict.
C34_RetriedMeansAcceptedInSession ==
    ChatDone =>
        /\ Len(eval_calls) >= 1 /\ eval_calls[1].by = "chat"
        /\ chat_response.was_retried =>
              /\ Rejecting(InitialVerdict)
              /\ Len(retry_calls) = 1
              /\ rpc = "returned" /\ result.was_successful
              /\ chat_response.content = result.final_response
              /\ AcceptedInSession(chat_response.content)
              /\ Acceptable(eval_calls[Len(eval_calls)].verdict)
              /\ eval_calls[Len(eval_calls)].reply = chat_response.content
        /\ ~ Rejecting(InitialVerdict) =>
              /\ chat_response.was_retried = FALSE
              /\ retry_calls = <<>>

\* C34 witness: the first round of the retry session was accepted
C34_Witness ==
    /\ ChatDone /\ chat_response.was_retried
    /\ Len(eval_calls) = 2
    /\ Rejecting(eval_calls[1].verdict)
    /\ Acceptable(eval_calls[2].verdict)
    /\ chat_response.content = eval_calls[2].reply
    /\ chat_response.content # eval_calls[1].reply

\* C35 (as stated): the evaluation of the returned ChatResponse is always
\* the verdict of the initial reply, and when was_retried is true it rejects.
C35_Original ==
    ChatDone =>
        /\ chat_response.evaluation = InitialVerdict
        /\ chat_response.was_retried =>
              /\ chat_response.evaluation.is_acceptable = FALSE
              /\ ~ is_successful(chat_response)

\* C35 (amended): the evaluation of the returned ChatResponse is the verdict
\* of the initial reply unless an exception reached the handler, and then it
\* is None; it is never a verdict of the retry session: when was_retried is
\* true it is the rejection of the initial reply, so is_successful is false
\* although the content was accepted.
C35_EvaluationIsInitialVerdict ==
    ChatDone =>
        /\ ~ RetryRaised => chat_response.evaluation = InitialVerdict
        /\ RetryRaised =>
              /\ chat_response.evaluation = NoneEval
              /\ Rejecting(InitialVerdict)
              /\ is_successful(chat_response)
        /\ chat_response.was_retried =>
              /\ Rejecting(chat_response.evaluation)
              /\ ~ is_successful(chat_response)
              /\ AcceptedInSession(chat_response.content)
              /\ chat_response.evaluation # result.final_evaluation

\* C35 witness: the retried reply was accepted in round 2 and the response
\* still carries the rejection of the initial reply
C35_Witness ==
    /\ ChatDone /\ chat_response.was_retried
    /\ Len(eval_calls) = 3
    /\ Acceptable(eval_calls[3].verdict)
    /\ chat_response.content = eval_calls[3].reply
    /\ chat_response.evaluation = eval_calls[1].verdict
    /\ chat_response.evaluation.feedback = "f2"
    /\ ~ is_successful(chat_response)

\* rounds of the session whose regeneration produced a reply
RoundsWithReply == {eval_calls[i].round : i \in RetryEvals}

\* C36: in retry_with_evaluation attempts_made of an accepted outcome is the
\* 1-based index of the accepting round, rounds without a response counted;
\* of an exhausted outcome it is max_retries; all_attempts has at most
\* attempts_made + 1 records, and exactly that many iff every round run
\* generated a reply.
C36_AttemptsMadeCountsRounds ==
    (rwe_session /\ rpc = "returned") =>
        /\ result.was_successful =>
              /\ result.attempts_made = Len(gen_calls)
              /\ result.attempts_made = eval_calls[Len(eval_calls)].round
              /\ Acceptable(eval_calls[Len(eval_calls)].verdict)
        /\ ~ result.was_successful =>
              /\ result.attempts_made = cfg.max_retries
              /\ Len(gen_calls) = cfg.max_retries
        /\ Len(result.all_attempts) <= result.attempts_made + 1
        /\ Len(result.all_attempts) = result.attempts_made + 1
              <=> RoundsWithReply = 1..Len(gen_calls)
        /\ Len(result.all_attempts) = Cardinality(RoundsWithReply) + 1

\* C36 witness: accepted in round 3 after a round without a response
C36_Witness ==
    /\ rwe_session /\ caller = "direct" /\ rpc = "returned"
    /\ result.was_successful
    /\ result.attempts_made = 3
    /\ RoundsWithReply = {1, 3}
    /\ Len(result.all_attempts) = 3

\* C37: in a result of retry_with_evaluation final_evaluation is the verdict
\* given for final_response itself: acceptable on an accepted outcome, not
\* acceptable on an exhausted one, absent when the last generated reply got
\* no verdict or no reply was generated; never the verdict of an earlier
\* reply.
C37_FinalEvaluationOfFinalResponse ==
    (rwe_session /\ rpc = "returned") =>
        /\ RetryEvals = {} =>
              /\ result.final_evaluation = NoneEval
              /\ result.final_response = retry_calls[1].original_reply
              /\ ~ result.was_successful
        /\ RetryEvals # {} =>
              LET last == eval_calls[MaxOf(RetryEvals)] IN
              /\ result.final_response = last.reply
              /\ result.final_response = Last(result.all_attempts)
              /\ result.final_evaluation = last.verdict
              /\ result.was_successful <=> Acceptable(result.final_evaluation)
              /\ result.final_evaluation.kind \in {"eval", "none"}

\* C37 witness: exhausted; round 1 was rejected, the reply of round 2 got no
\* verdict, round 3 generated nothing: the final reply is that of round 2 and
\* there is no final evaluation
C37_Witness ==
    /\ rwe_session /\ caller = "direct" /\ rpc = "returned"
    /\ ~ result.was_successful
    /\ Len(gen_calls) = 3 /\ RoundsWithReply = {1, 2}
    /\ Rejecting(eval_calls[1].verdict)
    /\ eval_calls[2].verdict = NoneEval
    /\ result.final_response = eval_calls[2].reply
    /\ result.final_evaluation = NoneEval

\* the replies generated so far in the session
GeneratedReplies == Len(attempts) - 1

\* C38: in retry_with_evaluation a generated reply is evaluated once, before
\* the next regeneration begins, so the evaluator calls are as many as the
\* rounds that produced a reply and at most max_retries; in retry_best_of_n
\* the generation calls all precede the evaluation calls and every generated
\* candidate is evaluated once, also after an acceptable one.
C38_EveryReplyEvaluatedOnce ==
    /\ [](rwe_session =>
            /\ Cardinality(RetryEvals) <= GeneratedReplies
            /\ GeneratedReplies <= Cardinality(RetryEvals) + 1
            /\ Cardinality(RetryEvals) <= cfg.max_retries
            /\ Cardinality(RoundsWithReply) = Cardinality(RetryEvals)
            /\ \A i \in RetryEvals :
                  eval_calls[i].reply =
                      attempts[1 + Cardinality({j \in RetryEvals : j <= i})]
            /\ rpc \in {"returned", "rwe_generate", "rwe_exhausted"} =>
                  Cardinality(RetryEvals) = GeneratedReplies)
    /\ [][(rwe_session /\ gen_calls' # gen_calls) =>
            Cardinality(RetryEvals) = GeneratedReplies]_vars
    /\ [](bon_session =>
            /\ FindBestEvals # {} => Len(gen_calls) = n_attempts
            /\ Cardinality(FindBestEvals) <= GeneratedReplies
            /\ \A i \in FindBestEvals :
                  eval_calls[i].reply =
                      attempts[1 + Cardinality({j \in FindBestEvals : j <= i})]
            /\ rpc = "returned" =>
                  Cardinality(FindBestEvals) = GeneratedReplies)
    /\ [][(bon_session /\ gen_calls' # gen_calls) => FindBestEvals = {}]_vars

\* C38 witness: best of three, the first candidate acceptable and the two
\* after it evaluated all the same
C38_Witness ==
    /\ bon_session /\ rpc = "returned"
    /\ Len(gen_calls) = 3 /\ GeneratedReplies = 3
    /\ Cardinality(FindBestEvals) = 3
    /\ Acceptable(eval_calls[1].verdict)
    /\ Rejecting(eval_calls[3].verdict)
====
